---- MODULE Spec2Model ----
(***************************************************************************)
(* A model of tensor2tensor/models/research/transformer_vae.py: the        *)
(* autoencoder-augmented Transformer (ae_transformer_internal), its latent *)
(* predictor (ae_latent_softmax), its latent samplers (ae_latent_sample,   *)
(* ae_latent_sample_beam), the compress / decompress pair, the            *)
(* construction and the decoding session of TransformerAE; and of the time *)
(* steps that tensor2tensor/envs/time_step_test.py exercises.              *)
(*                                                                         *)
(* Conventions.                                                            *)
(*  - A tensor [batch, length, 1, hidden] is modelled per batch row as a   *)
(*    sequence over the length axis holding one integer per position; the  *)
(*    batch axis is carried where an operation is indexed by it            *)
(*    (ae_latent_sample_beam).                                             *)
(*  - A float is an exact rational <<n, d>> with d > 0, kept in lowest     *)
(*    terms.                                                               *)
(*  - Learned layers (attention, convolution weights, the decoder) are     *)
(*    fixed deterministic stand-ins that keep the shapes of the code; the  *)
(*    random draws of the code (tf.random_uniform) are inputs of the       *)
(*    actions.                                                             *)
(*  - hparams.task is "translate": the branches of task "image" are not   *)
(*    modelled.                                                            *)
(***************************************************************************)
EXTENDS Integers, Sequences, FiniteSets, TLC

VARIABLES
  hparams,        \* the hyperparameter configuration of the run
  DO_SUMMARIES,   \* the module flag _DO_SUMMARIES
  global_step,    \* tf.train.get_global_step()
  predict_mask,   \* TransformerAE.predict_mask
  frame,          \* the locals of the last call of ae_transformer_internal
  sargs,          \* the arguments of the running call of ae_latent_sample
  spc,            \* where that call is: "idle", "start", "loop", "returned", "error"
  path,           \* the path it took: "none", "beam", "iterative"
  latents_discrete,       \* ae_latent_sample: latents_discrete, one row per batch element
  latents_discrete_prev,  \* next_bit: latents_discrete_prev
  i,              \* ae_latent_sample: the number of next_bit calls made
  beam_ids,       \* ae_latent_sample_beam: ids[:, 0, :], the first beam of beam_search
  softmax,        \* the locals of the last call of ae_latent_softmax
  ema_updates,    \* the updates applied so far to the codebook/EMA statistics
  calls,          \* the forward passes made so far
  features,       \* the features of the decoding session, cache_raw included
  sampler_calls,  \* the runs of ae_latent_sample in the decoding session
  model,          \* the outcome of TransformerAE.__init__
  ts,             \* a TimeStep
  tsr             \* the TimeStep that ts.replace returned

fvars == <<DO_SUMMARIES, global_step, predict_mask, frame, ema_updates, calls>>
dvars == <<features, sampler_calls>>
ovars == <<model, ts, tsr>>
svars == <<sargs, spc, path, latents_discrete, latents_discrete_prev, i, beam_ids>>
vars == <<hparams, fvars, dvars, svars, softmax, ovars>>

(***************************************************************************)
(* Bounds of the model.                                                    *)
(***************************************************************************)
MaxTargetLen == 3
MaxInputLen == 2
MaxCompressSteps == 2
MaxStep == 9
MaxLatentLen == 17
MaxShortLen == 2
MaxBatch == 2
MaxDecodeBlocks == 3
MaxZ == 6
MaxWeights == 1

(***************************************************************************)
(* Integer helpers.                                                        *)
(***************************************************************************)
Min(a, b) == IF a < b THEN a ELSE b
Max(a, b) == IF a > b THEN a ELSE b
Abs(a) == IF a < 0 THEN -a ELSE a

RECURSIVE Gcd(_, _)
Gcd(a, b) == IF b = 0 THEN a ELSE Gcd(b, a % b)

RECURSIVE Pow(_, _)
Pow(b, e) == IF e = 0 THEN 1 ELSE b * Pow(b, e - 1)

RECURSIVE SeqSum(_)
SeqSum(s) == IF s = <<>> THEN 0 ELSE Head(s) + SeqSum(Tail(s))

\* The sequence s with its elements computed once: TLC keeps a function
\* constructor unevaluated and recomputes an element at every application.
Tuple(s) == s \o <<>>

(***************************************************************************)
(* Exact rationals standing for the floats of the code.                    *)
(***************************************************************************)
R(n, d) ==
  LET s == IF d < 0 THEN -1 ELSE 1
      g == Gcd(Abs(n), Abs(d))
  IN  <<(s * n) \div g, (s * d) \div g>>
Zero == <<0, 1>>
One == <<1, 1>>
RMul(a, b) == R(a[1] * b[1], a[2] * b[2])
RAdd(a, b) == R(a[1] * b[2] + b[1] * a[2], a[2] * b[2])
RSub(a, b) == R(a[1] * b[2] - b[1] * a[2], a[2] * b[2])
\* n1/d1 < n2/d2 for n1, n2 >= 0 and d1, d2 > 0, compared by quotient and
\* remainder so that no product leaves the 32-bit integers.
RECURSIVE FracLess(_, _, _, _)
FracLess(n1, d1, n2, d2) ==
  IF (n1 \div d1) # (n2 \div d2) THEN (n1 \div d1) < (n2 \div d2)
  ELSE IF n2 % d2 = 0 THEN FALSE
  ELSE IF n1 % d1 = 0 THEN TRUE
  ELSE FracLess(d2, n2 % d2, d1, n1 % d1)

RLess(a, b) ==
  IF a[1] < 0 /\ b[1] >= 0 THEN TRUE
  ELSE IF a[1] >= 0 /\ b[1] < 0 THEN FALSE
  ELSE IF a[1] >= 0 THEN FracLess(a[1], a[2], b[1], b[2])
  ELSE FracLess(-b[1], b[2], -a[1], a[2])
RMinimum(a, b) == IF RLess(b, a) THEN b ELSE a
RMaximum(a, b) == IF RLess(a, b) THEN b ELSE a

(***************************************************************************)
(* common_layers.inverse_lin_decay(max_step): linearly from min_value =    *)
(* 0.01 to 1.0, reached at max_step.                                       *)
(***************************************************************************)
inverse_lin_decay(max_step, step) ==
  LET progress == RMinimum(R(step, max_step), One)
  IN  RAdd(RMul(progress, R(99, 100)), R(1, 100))

(***************************************************************************)
(* common_layers.inverse_exp_decay(max_step): 0.01 ^ (rem / max_step) with *)
(* rem = max(max_step - step, 0).  The power is rational where rem /       *)
(* max_step is 0, 1/2 or 1; the configurations of the model keep the step  *)
(* on those points.                                                        *)
(***************************************************************************)
inverse_exp_decay(max_step, step) ==
  LET rem == Max(max_step - step, 0)
  IN  CASE rem = 0 -> One
        [] 2 * rem = max_step -> R(1, 10)
        [] rem = max_step -> R(1, 100)

(***************************************************************************)
(* The hyperparameters the model reads, with the values that               *)
(* transformer_ae_small returns.  mode and sampling_temp are not assigned  *)
(* there: mode is set by the run and sampling_temp by the decoding         *)
(* hparams; they stand here at TRAIN and 0.                                *)
(***************************************************************************)
DefaultHparams ==
  [ mode |-> "TRAIN",
    z_size |-> 14,
    bottleneck_kind |-> "semhash",
    num_decode_blocks |-> 1,
    sampling_temp |-> Zero,
    unmasked_percentage |-> R(1, 10),
    do_ae |-> TRUE,
    do_mask |-> TRUE,
    use_predict_mask |-> TRUE,
    do_refine |-> FALSE,
    do_attend_compress |-> FALSE,
    do_attend_decompress |-> TRUE,
    do_residual_compress |-> FALSE,
    num_compress_steps |-> 3,
    startup_steps |-> 10000,
    mask_startup_steps |-> 50000,
    entropy_scale |-> Zero,
    prior_scale |-> One,
    sum_over_latents |-> FALSE,
    causal |-> TRUE,
    ema |-> TRUE,
    num_blocks |-> 1,
    num_residuals |-> 1,
    reshape_method |-> "slice",
    word_shuffle |-> R(1, 2),
    word_dropout |-> Zero,
    task |-> "translate" ]

(***************************************************************************)
(* transformer_ae_small with four hyperparameters overridden by the run,   *)
(* as hparams overrides do: a vocabulary of 2^2 codes instead of 2^14, one *)
(* halving instead of three, and schedules that end at steps 2 and 8.      *)
(* This is not what transformer_ae_small returns (DefaultHparams is).  The *)
(* configurations start from this one where every code of the vocabulary   *)
(* is enumerated and every global step up to MaxStep is visited; the ones  *)
(* that start from DefaultHparams name it.                                 *)
(***************************************************************************)
SmallHparams ==
  [DefaultHparams EXCEPT !.z_size = 2, !.num_compress_steps = 1,
                         !.startup_steps = 2, !.mask_startup_steps = 8]

vocab_size(hp) == Pow(2, hp.z_size)

(***************************************************************************)
(* Stand-ins of the learned layers.                                        *)
(***************************************************************************)
\* embed, the bottleneck's code-to-dense function: one dense value per code.
embed(code) == -1000 * (code + 1)

\* An absent tensor (None) and a present one.
None == [none |-> TRUE, x |-> <<>>]
Some(x) == [none |-> FALSE, x |-> x]

\* What the decoders read of the encoder output.
memory(inputs) == IF inputs.none THEN 0 ELSE SeqSum(inputs.x)

\* decode_transformer, task "translate": the targets are shifted right
\* (transformer_prepare_decoder) and decoded on top of the encoder output;
\* the output has the length of the targets.  With causal a position reads
\* the shifted targets up to itself; without it the self-attention bias is
\* multiplied by 0 (lines 168-169) and every position reads all of them.
decode_transformer(encoder_output, targets, causal) ==
  Tuple([p \in 1..Len(targets) |->
           encoder_output
             + SeqSum(SubSeq(targets, 1, IF causal THEN p - 1
                                                   ELSE Len(targets) - 1))])

\* tf.layers.dense(x, size): the logits of one position, indexed 1..size for
\* the codes 0..size-1.
dense_logits(x, size, w) ==
  [v \in 1..size |-> -Abs((((Abs(x) \div 1000) + w) % size) - (v - 1))]

\* tf.argmax over the last axis: the first index holding the maximum, found
\* by halves (of two equal maxima the one of the left half is kept).
RECURSIVE Argmax(_)
Argmax(logits) ==
  IF Len(logits) = 1 THEN 0
  ELSE LET half == Len(logits) \div 2
           a == Argmax(SubSeq(logits, 1, half))
           b == half + Argmax(SubSeq(logits, half + 1, Len(logits)))
       IN  IF logits[b + 1] > logits[a + 1] THEN b ELSE a

(***************************************************************************)
(* multinomial_sample: a multinomial draw when temperature > 0, else the   *)
(* argmax.  draw is the outcome of tf.multinomial, one code per position.  *)
(***************************************************************************)
\* The sampling that draws at temperature zero too.
multinomial_sample_from_zero(x, vocab, temperature, draw) ==
  IF ~RLess(temperature, Zero)
  THEN draw
  ELSE [p \in 1..Len(x) |-> Argmax(x[p])]

multinomial_sample(x, vocab, temperature, draw) ==
  IF RLess(Zero, temperature)
  THEN draw
  ELSE [p \in 1..Len(x) |-> Argmax(x[p])]

(***************************************************************************)
(* ae_latent_softmax, multi-block case: the mixed-radix digits of a code   *)
(* and the code of a tuple of digits.                                      *)
(***************************************************************************)
vocab_bits(hp) == hp.z_size
block_vocab_size(hp) == Pow(2, vocab_bits(hp) \div hp.num_decode_blocks)

\* The sum taken with the blocks counted from 1.
compose_from_one(samples, bvs) ==
  IF samples = <<>> THEN 0
  ELSE SeqSum([b \in 1..Len(samples) |-> samples[b] * Pow(bvs, b)])

\* d = floormod(floordiv(latents_discrete, block_vocab_size**i), block_vocab_size)
block_digit(code, blk, bvs) == (code \div Pow(bvs, blk)) % bvs

RECURSIVE compose_from(_, _, _)
compose_from(samples, bvs, blk) ==
  IF blk >= Len(samples) THEN 0
  ELSE samples[blk + 1] * Pow(bvs, blk) + compose_from(samples, bvs, blk + 1)

\* sample = sum([s * block_vocab_size**i for i, s in enumerate(samples)])
compose_sample(samples, bvs) == compose_from(samples, bvs, 0)

\* The assertions of the multi-block case (lines 249-250).
\* The softmax without the assert of line 250.
ae_latent_softmax_unchecked(hp) == hp.num_decode_blocks = hp.num_decode_blocks

ae_latent_softmax_ok(hp) ==
  \/ hp.num_decode_blocks < 2
  \/ /\ vocab_size(hp) = Pow(2, vocab_bits(hp))
     /\ vocab_bits(hp) % hp.num_decode_blocks = 0

\* The number of classifier heads and the number of classes of each.
num_heads(hp) == IF hp.num_decode_blocks < 2 THEN 1 ELSE hp.num_decode_blocks
head_size(hp) ==
  IF hp.num_decode_blocks < 2 THEN vocab_size(hp) ELSE block_vocab_size(hp)

\* The per-block labels of the loss: the code itself in the single-block
\* case, its mixed-radix digits in the multi-block case.
ae_latent_softmax_labels(code, hp) ==
  IF hp.num_decode_blocks < 2
  THEN <<code>>
  ELSE [b \in 1..hp.num_decode_blocks |->
          block_digit(code, b - 1, block_vocab_size(hp))]

\* The samples of the heads for a row of predictions; draws[b] is the
\* multinomial outcome of head b.
head_samples(latents_pred, hp, w, draws) ==
  [b \in 1..num_heads(hp) |->
     multinomial_sample(
       [p \in 1..Len(latents_pred) |->
          dense_logits(latents_pred[p], head_size(hp), w + b - 1)],
       head_size(hp), hp.sampling_temp, draws[b])]

\* The sample ae_latent_softmax returns for a row of predictions.
ae_latent_softmax_sample(latents_pred, hp, w, draws) ==
  LET samples == head_samples(latents_pred, hp, w, draws)
  IN  IF hp.num_decode_blocks < 2
      THEN samples[1]
      ELSE [p \in 1..Len(latents_pred) |->
              compose_sample([b \in 1..hp.num_decode_blocks |-> samples[b][p]],
                             block_vocab_size(hp))]

\* The outcomes tf.multinomial can have for a row of length len: any code
\* per head and position when the temperature is positive; it is not called
\* otherwise (NoDraws).
NoDraws(hp, len) == [b \in 1..num_heads(hp) |-> [p \in 1..len |-> 0]]
Draws(hp, len) ==
  IF RLess(Zero, hp.sampling_temp)
  THEN [1..num_heads(hp) -> [1..len -> 0..(head_size(hp) - 1)]]
  ELSE {NoDraws(hp, len)}

(***************************************************************************)
(* ae_latent_sample_beam.                                                  *)
(***************************************************************************)
\* symbols_to_logits_fn: the logits of the current output position.
symbols_to_logits_fn(ids, inputs, hp, w) ==
  LET latents_disc == Tail(ids) \o <<0>>
      latents_dense == [p \in 1..Len(latents_disc) |-> embed(latents_disc[p])]
      latents_pred == decode_transformer(inputs, latents_dense, TRUE)
      current_output_position == Len(ids) - 1
  IN  dense_logits(latents_pred[current_output_position + 1], vocab_size(hp), w)

\* beam_search.beam_search with beam_size 1, alpha 0, eos_id -1 and
\* stop_early False: no symbol ends a sequence, so the one alive beam grows
\* by its best symbol until decode_length symbols follow the initial id.
RECURSIVE beam_search(_, _, _, _, _)
beam_search(ids, decode_length, inputs, hp, w) ==
  IF Len(ids) >= decode_length + 1
  THEN ids
  ELSE beam_search(Append(ids, Argmax(symbols_to_logits_fn(ids, inputs, hp, w))),
                   decode_length, inputs, hp, w)

\* The first beam returned with its initial id.
keep_initial_id(ids) == ids

\* res[:, 1:] of the first beam, for one batch row.
strip_initial_id(ids) == Tail(ids)

\* ids[:, 0, :] of beam_search(symbols_to_logits_fn, initial_ids, beam_size,
\* length, ...) for one batch row.
first_beam(latents_dense_in, inputs, hp, w) ==
  LET initial_ids == <<0>>
      length == Len(latents_dense_in)
  IN  beam_search(initial_ids, length, inputs, hp, w)

\* Lines 276-277 tile inputs and ed before anything else: tf.tile cannot
\* convert None to a tensor, so that a call without inputs raises
\* ValueError before beam_search is reached.
ae_latent_sample_beam(latents_dense_in, inputs, hp, w) ==
  IF inputs.none
  THEN [status |-> "error", error |-> "ValueError", latents |-> <<>>]
  ELSE [status |-> "returned", error |-> "none",
        latents |-> strip_initial_id(first_beam(latents_dense_in,
                                                memory(inputs), hp, w))]

(***************************************************************************)
(* ae_latent_sample, iterative refinement.                                 *)
(***************************************************************************)
ITERS == 16

\* decode_transformer(..., "extra") followed by ae_latent_softmax(.., None, ..).
latent_predict(latents_dense, inputs, hp, w, draws) ==
  ae_latent_softmax_sample(decode_transformer(inputs, latents_dense, TRUE), hp, w, draws)

\* The new prediction returned whole, without the kept prefix.
concat_nothing(prev, new, k) == new

\* tf.concat([latents_discrete_prev[:, :(i+1), :], latents_discrete[:, (i+1):, :]])
concat_prefix(prev, new, k) ==
  SubSeq(prev, 1, Min(k + 1, Len(prev))) \o SubSeq(new, k + 2, Len(new))

next_bit(latents_disc, k, inputs, hp, w, draws) ==
  LET latents_dense == [p \in 1..Len(latents_disc) |-> embed(latents_disc[p])]
      new == latent_predict(latents_dense, inputs, hp, w, draws)
  IN  concat_prefix(latents_disc, new, k)

\* The beam path chosen on the block count alone.
takes_beam_path_any_temp(hp) == hp.num_decode_blocks < 2

takes_beam_path(hp) ==
  hp.num_decode_blocks < 2 /\ hp.sampling_temp = Zero

RECURSIVE refine(_, _, _, _, _, _)
refine(latents_disc, k, iters, inputs, hp, w) ==
  IF k >= iters THEN latents_disc
  ELSE refine(next_bit(latents_disc, k, inputs, hp, w,
                       NoDraws(hp, Len(latents_disc))),
              k + 1, iters, inputs, hp, w)

\* The whole call for one batch row when no multinomial draw is made
\* (sampling_temp <= 0); inputs is None or the encoder output.  The
\* iterative path decodes without inputs as well; its first call of
\* ae_latent_softmax makes the assertion of line 250.
ae_latent_sample(latents_dense, inputs, iters, hp, w) ==
  IF takes_beam_path(hp)
  THEN ae_latent_sample_beam(latents_dense, inputs, hp, w)
  ELSE IF ~ae_latent_softmax_ok(hp)
  THEN [status |-> "error", error |-> "AssertionError", latents |-> <<>>]
  ELSE [status |-> "returned", error |-> "none",
        latents |-> refine(latent_predict(latents_dense, memory(inputs), hp, w,
                                          NoDraws(hp, Len(latents_dense))),
                           0, iters, memory(inputs), hp, w)]

(***************************************************************************)
(* The layers of the forward pass that act on the length axis.             *)
(***************************************************************************)
\* tf.zeros of one row of len positions.
zeros(len) == Tuple([p \in 1..len |-> 0])

\* common_layers.pad_to_same_length(x, y, final_length_divisible_by): x
\* padded with zeros to the longer of the two lengths, rounded up to a
\* multiple of final_length_divisible_by.
pad_to_same_length(x, y_length, final_length_divisible_by) ==
  LET x_length == Len(x)
      longer == Max(x_length, y_length)
      max_length ==
        IF final_length_divisible_by > 1
        THEN ((longer + final_length_divisible_by - 1)
                \div final_length_divisible_by) * final_length_divisible_by
        ELSE longer
  IN  x \o [p \in 1..(max_length - x_length) |-> 0]

\* common_attention.add_positional_embedding: a learned vector per position
\* is added; the length is kept.
add_positional_embedding(x) == Tuple([p \in 1..Len(x) |-> x[p] + 10 * p])

\* conv_block with a (3, 1) kernel and SAME padding: the length is kept.
conv3_same(x) ==
  Tuple([p \in 1..Len(x) |->
           (Abs(IF p > 1 THEN x[p - 1] ELSE 0) + Abs(x[p])
              + Abs(IF p < Len(x) THEN x[p + 1] ELSE 0)) % 7])

\* residual_conv: repeat times x += conv_block(layer_norm(x)).
RECURSIVE residual_conv(_, _)
residual_conv(x, repeat) ==
  IF repeat <= 0 THEN x
  ELSE LET y == conv3_same(x)
       IN  residual_conv(Tuple([p \in 1..Len(x) |-> x[p] + y[p]]), repeat - 1)

\* attend: attention over source added to x; the length of x is kept.
attend(x, source) ==
  Tuple([p \in 1..Len(x) |-> x[p] + (Abs(SeqSum(source)) % 5)])

\* conv_block with kernel (2, 1), strides (2, 1) and SAME padding: one
\* output position per pair of input positions.
conv_stride2(x) ==
  Tuple([j \in 1..((Len(x) + 1) \div 2) |->
           x[2 * j - 1] + (IF 2 * j <= Len(x) THEN x[2 * j] ELSE 0)])

\* The halving loop of compress.
RECURSIVE compress_steps(_, _, _)
compress_steps(cur, steps, hp) ==
  IF steps <= 0 THEN cur
  ELSE compress_steps(
         conv_stride2(IF hp.do_residual_compress
                      THEN residual_conv(cur, hp.num_compress_steps)
                      ELSE cur),
         steps - 1, hp)

\* compress(x, c, is_2d = False, hparams, name).
compress(x, c, hp) ==
  LET cur0 == residual_conv(x, hp.num_compress_steps)
      cur1 == IF ~c.none /\ hp.do_attend_compress THEN attend(cur0, c.x) ELSE cur0
  IN  compress_steps(cur1, hp.num_compress_steps, hp)

\* The reshape of decompress_step with the length tripled.
decompress_step_triple(source) ==
  Tuple([p \in 1..(Len(source) * 3) |-> 2 * source[(p + 2) \div 3]])

\* decompress_step, is_2d = False: a convolution doubles the depth and the
\* reshape to [shape[0], shape[1] * 2, 1, hidden_size] doubles the length.
decompress_step(source) ==
  Tuple([p \in 1..(Len(source) * 2) |->
           2 * source[(p + 1) \div 2] - ((p + 1) % 2)])

\* The decompression loop of ae_transformer_internal (lines 484-489).
RECURSIVE decompress(_, _, _, _)
decompress(d, steps, inputs, hp) ==
  IF steps <= 0 THEN d
  ELSE LET d1 == residual_conv(d, 1)
           d2 == IF ~inputs.none /\ hp.do_attend_decompress
                 THEN attend(d1, inputs.x) ELSE d1
       IN  decompress(decompress_step(d2), steps - 1, inputs, hp)

\* encode: the encoder output has the length of the inputs.
encode(x) == Tuple([p \in 1..Len(x) |-> x[p] + SeqSum(x)])

\* hparams.bottleneck (discretization.discrete_bottleneck): the dense
\* output, the discrete code and the auxiliary losses for a compressed
\* tensor x.  The vector-quantization kind reads the codebook that
\* __init__ hands it (means, ema_count, ema_means, lines 605-642): its code
\* is the one nearest to x in a codebook that ema_count updates have moved.
\* The other kinds are given no codebook (line 578).
bottleneck(x, hp, ema_count) ==
  LET moved == IF hp.bottleneck_kind = "dvq" THEN ema_count ELSE 0
      discrete == Tuple([p \in 1..Len(x) |->
                           (Abs(x[p]) + moved) % vocab_size(hp)])
      is_dense == hp.bottleneck_kind \in {"dense", "vae"}
  IN  [dense |-> IF is_dense
                 THEN Tuple([p \in 1..Len(x) |-> -(Abs(x[p]) + 1)])
                 ELSE Tuple([p \in 1..Len(x) |-> embed(discrete[p])]),
       discrete |-> discrete,
       extra_loss |-> IF hp.bottleneck_kind = "dense" THEN Zero
                      ELSE R(1 + (SeqSum(x) % 3), 2),
       neg_q_entropy |-> IF is_dense THEN Zero
                         ELSE R(-(1 + (SeqSum(discrete) % 2)), 1)]

(***************************************************************************)
(* ae_transformer_internal.                                                *)
(***************************************************************************)
\* The masking weight left unclamped.
masking_weight_unclamped(hp, step, pm, unmask_u) ==
  LET lowered(m0) == IF ~hp.do_refine
                     THEN RSub(m0, RMul(unmask_u, hp.unmasked_percentage))
                     ELSE m0
      m1 == lowered(RMul(inverse_lin_decay(hp.mask_startup_steps, step),
                         inverse_exp_decay(hp.mask_startup_steps \div 4, step)))
  IN  IF hp.mode = "PREDICT" \/ hp.use_predict_mask THEN pm ELSE m1

\* Lines 493-502: the masking weight that is compared with the draws.
masking_weight(hp, step, pm, unmask_u) ==
  LET lowered(m0) == IF ~hp.do_refine
                     THEN RSub(m0, RMul(unmask_u, hp.unmasked_percentage))
                     ELSE m0
      m1 == lowered(RMul(inverse_lin_decay(hp.mask_startup_steps, step),
                         inverse_exp_decay(hp.mask_startup_steps \div 4, step)))
  IN  IF hp.mode = "PREDICT" \/ hp.use_predict_mask THEN pm
      ELSE RMinimum(RMaximum(m1, Zero), One)

\* Lines 503-505: mask = to_float(less(masking, random_uniform(shape))).
mask_of(masking, mask_u) ==
  Tuple([p \in 1..Len(mask_u) |->
           IF RLess(masking, mask_u[p]) THEN 1 ELSE 0])

\* The blend with the two terms exchanged.
blend_swapped(mask, targets, d) ==
  Tuple([p \in 1..Max(Len(targets), Len(d)) |->
           (1 - mask[IF Len(mask) = 1 THEN 1 ELSE p])
               * targets[IF Len(targets) = 1 THEN 1 ELSE p]
             + mask[IF Len(mask) = 1 THEN 1 ELSE p]
               * d[IF Len(d) = 1 THEN 1 ELSE p]])

\* Line 508: targets = mask * targets + (1.0 - mask) * d, where an axis of
\* length 1 is broadcast along the other operand.
blend(mask, targets, d) ==
  Tuple([p \in 1..Max(Len(targets), Len(d)) |->
           mask[IF Len(mask) = 1 THEN 1 ELSE p]
               * targets[IF Len(targets) = 1 THEN 1 ELSE p]
             + (1 - mask[IF Len(mask) = 1 THEN 1 ELSE p])
               * d[IF Len(d) = 1 THEN 1 ELSE p]])

\* The lengths that line 508 can combine.
blend_shapes_ok(targets, d) ==
  Len(targets) = Len(d) \/ Len(targets) = 1 \/ Len(d) = 1

\* Lines 364-367 and 385-387: the length the targets are padded to.
\* Lines 371-383: the positions 0..len-1 plus a noise drawn per position
\* from [0, 1 + word_shuffle) are sorted and the targets gathered in that
\* order.
targets_permuted(targets, noise) ==
  LET num(p) == (p - 1) * noise[p][2] + noise[p][1]
      den(p) == noise[p][2]
      before(q, p) == \/ num(q) * den(p) < num(p) * den(q)
                      \/ num(q) * den(p) = num(p) * den(q) /\ q < p
      rank(p) == 1 + Cardinality({q \in 1..Len(targets) : before(q, p)})
  IN  Tuple([k \in 1..Len(targets) |->
               targets[CHOOSE p \in 1..Len(targets) : rank(p) = k]])

\* Lines 395-401: under a word_dropout other than 0,
\* tf.where(mask > word_dropout, targets, zeros); otherwise targets.
targets_noisy(targets, word_dropout, mask) ==
  IF word_dropout = Zero THEN targets ELSE
  Tuple([p \in 1..Len(targets) |->
           IF RLess(word_dropout, mask[p]) THEN targets[p] ELSE 0])

padded_length(inputs_arg, targets_arg, hp) ==
  Len(pad_to_same_length(
        targets_arg,
        IF inputs_arg.none THEN Len(targets_arg) ELSE 2 * Len(inputs_arg.x),
        Pow(2, hp.num_compress_steps)))

\* The cross-entropy of ae_latent_softmax, per position, summed over the
\* blocks.
latent_pred_losses(latents_pred, latents_disc, hp) ==
  Tuple([p \in 1..Len(latents_disc) |->
           SeqSum([b \in 1..num_heads(hp) |->
                     1 + ((ae_latent_softmax_labels(latents_disc[p], hp)[b]
                             + Abs(latents_pred[p])) % 2)])])

\* tf.reduce_mean(tf.squared_difference(a, b)).
mean_squared_difference(a, b) ==
  R(SeqSum([p \in 1..Len(a) |-> (a[p] - b[p]) * (a[p] - b[p])]), Len(a))

\* Line 536: res = res[:, :original_targets_shape[1], :, :].
truncate(res, original_len) == SubSeq(res, 1, Min(original_len, Len(res)))

ZeroLosses == [extra |-> Zero, latent_pred |-> Zero, neg_q_entropy |-> Zero]

\* The gate of the latent_pred loss, open from the step mask_startup_steps
\* itself.
latent_time_from(hp, step) ==
  IF hp.mask_startup_steps <= step THEN One ELSE Zero

\* Lines 528-530: latent_time = less(mask_startup_steps, global_step), as
\* a float.
latent_time(hp, step) ==
  IF hp.mask_startup_steps < step THEN One ELSE Zero

\* The squared-difference loss without its factor.
squared_difference_unscaled(inputs_c, targets_c) ==
  mean_squared_difference(inputs_c, targets_c)

\* Lines 441-442: reduce_mean(squared_difference(inputs_c, targets_c)) * 20.
squared_difference_loss(inputs_c, targets_c) ==
  RMul(mean_squared_difference(inputs_c, targets_c), R(20, 1))

\* The stages of one call up to the latents, in the order of the code.
latent_stages(hp, has_inputs, sampler_ran) ==
  LET is_dense == hp.bottleneck_kind \in {"dense", "vae"}
  IN  (IF has_inputs THEN <<"encode">> ELSE <<>>)
        \o <<"compress">>
        \o (IF hp.mode # "PREDICT"
            THEN IF is_dense
                 THEN <<"bottleneck", "decode_transformer", "bottleneck">>
                 ELSE <<"bottleneck", "decode_transformer",
                        "ae_latent_softmax">>
            ELSE IF is_dense
                 THEN <<"decode_transformer", "bottleneck">>
                 ELSE <<"bottleneck">>
                        \o (IF ~sampler_ran THEN <<>>
                            ELSE IF takes_beam_path(hp)
                                 THEN IF has_inputs
                                      THEN <<"ae_latent_sample", "beam_search">>
                                      ELSE <<"ae_latent_sample">>
                                 ELSE <<"ae_latent_sample",
                                        "decode_transformer",
                                        "ae_latent_softmax">>))

\* The stages after the latents (lines 476-525).
decoder_stages(hp) ==
  <<"decompress", "decoder">>
    \o (IF hp.do_mask /\ hp.do_refine THEN <<"encode">> ELSE <<>>)

\* The bottleneck applied twice in every training pass, as lines 406 and
\* 445 apply it for the dense kinds.
bottleneck_modes_twice(hp) ==
  IF hp.mode # "PREDICT" THEN <<hp.mode, hp.mode>> ELSE <<"unset">>

\* The mode each application of hparams.bottleneck is given (lines 406-410,
\* 443-451, 459-463, 465-468); line 465 passes none.
bottleneck_modes(hp) ==
  LET is_dense == hp.bottleneck_kind \in {"dense", "vae"}
  IN  IF hp.mode # "PREDICT"
      THEN IF is_dense THEN <<hp.mode, hp.mode>> ELSE <<hp.mode>>
      ELSE IF is_dense THEN <<hp.mode>> ELSE <<"unset">>

\* The summaries emitted whatever the flag.
summaries_always(hp, summaries_on, softmax_passed) ==
  IF hp.mode = "PREDICT" THEN <<>>
  ELSE <<"b0">>
         \o (IF hp.bottleneck_kind \notin {"dense", "vae"} /\ softmax_passed
             THEN <<"latent_pred_loss_mean">> ELSE <<>>)

\* The summaries of lines 411-412 and 430-432, up to the stage reached.
summaries_of(hp, summaries_on, softmax_passed) ==
  IF ~summaries_on \/ hp.mode = "PREDICT" THEN <<>>
  ELSE <<"b0">>
         \o (IF hp.bottleneck_kind \notin {"dense", "vae"} /\ softmax_passed
             THEN <<"latent_pred_loss_mean">> ELSE <<>>)

\* The latent sampler run whatever the cache argument.
sampler_runs_always(hp, cache_arg) ==
  /\ hp.do_ae
  /\ hp.mode = "PREDICT"
  /\ hp.bottleneck_kind \notin {"dense", "vae"}

\* Lines 357, 456, 463, 471: ae_latent_sample is called under do_ae, in
\* PREDICT mode, for a discrete bottleneck kind, if cache is None.
sampler_runs(hp, cache_arg) ==
  /\ hp.do_ae
  /\ hp.mode = "PREDICT"
  /\ hp.bottleneck_kind \notin {"dense", "vae"}
  /\ cache_arg.none

\* The two names with both assigned whatever do_ae is.
locals_assigned_always(hp) ==
  {"original_targets_shape", "targets_c"}

\* The local names that the end of the pass reads (original_targets_shape
\* at line 536, targets_c at line 539) and that are assigned when the pass
\* gets there: line 360 and line 403 are both inside `if hparams.do_ae:`
\* (line 357) and nothing else assigns them.
locals_assigned(hp) ==
  IF hp.do_ae THEN {"original_targets_shape", "targets_c"} ELSE {}

\* One call: the locals of the function when it returns or raises.  rnd
\* holds the outcomes of the random draws of the call, summaries_on the
\* value of _DO_SUMMARIES that the call reads, ema_count the statistics of
\* the codebook that the bottleneck of the call reads.
ae_transformer_internal(inputs_arg, targets_arg, target_space, hp, cache_arg, pm, step, rnd, summaries_on, ema_count) ==
  LET inputs == IF inputs_arg.none THEN None ELSE Some(encode(inputs_arg.x))
      mem == memory(inputs)
  IN
  IF "original_targets_shape" \notin locals_assigned(hp)
  THEN \* Line 536 reads original_targets_shape, assigned under do_ae only.
       [status |-> "error", error |-> "UnboundLocalError",
        losses |-> ZeroLosses, predict_mask |-> pm,
        decoder_input |-> targets_arg, cache_arg |-> cache_arg,
        steps |-> (IF inputs_arg.none THEN <<>> ELSE <<"encode">>)
                    \o <<"decoder">>,
        bottleneck_modes |-> <<>>, summaries |-> <<>>]
  ELSE
  LET original_len == Len(targets_arg)
      shuffled == IF hp.do_ae /\ hp.word_shuffle # Zero
                  THEN targets_permuted(targets_arg, rnd.shuffle_u)
                  ELSE targets_arg
      targets ==
        add_positional_embedding(
          pad_to_same_length(
            shuffled,
            IF inputs.none THEN Len(targets_arg) ELSE 2 * Len(inputs.x),
            Pow(2, hp.num_compress_steps)))
      noisy == targets_noisy(targets, hp.word_dropout, rnd.dropout_u)
      targets_c == compress(noisy, inputs, hp)
      is_dense == hp.bottleneck_kind \in {"dense", "vae"}
      predicting == hp.mode = "PREDICT"
      bn == bottleneck(targets_c, hp, ema_count)
      pc == IF hp.mode = "TRAIN"
            THEN inverse_exp_decay(hp.startup_steps, step) ELSE One
      cond == RLess(rnd.cond_u, pc)
      cond_f == IF cond THEN One ELSE Zero
      embedded(x) == Tuple([p \in 1..Len(x) |-> embed(x[p])])
      latents_pred == decode_transformer(mem, embedded(bn.discrete), TRUE)
      lp_losses == latent_pred_losses(latents_pred, bn.discrete, hp)
      reduced(l) == IF hp.sum_over_latents
                    THEN R(SeqSum(l), 1)
                    ELSE R(SeqSum(l), Len(l))
      lp_reduced == reduced(lp_losses)
      inputs_c == decode_transformer(mem, targets_c, TRUE)
      ptc == IF hp.mode = "TRAIN"
             THEN RSub(One, RMul(inverse_lin_decay(200000, step), R(1, 2)))
             ELSE One
      asserts == predicting \/ is_dense \/ ae_latent_softmax_ok(hp)
      sampler_ran == sampler_runs(hp, cache_arg)
      sample ==
        IF RLess(Zero, hp.sampling_temp)
        THEN IF ae_latent_softmax_ok(hp)
             THEN [status |-> "returned", error |-> "none",
                   latents |-> rnd.sampled]
             ELSE [status |-> "error", error |-> "AssertionError",
                   latents |-> <<>>]
        ELSE ae_latent_sample(zeros(Len(targets_c)), inputs, ITERS, hp, 0)
      sampler_ok == ~sampler_ran \/ sample.status = "returned"
      cache == IF ~sampler_ran THEN cache_arg ELSE Some(sample.latents)
      latents_dense ==
        IF ~predicting
        THEN LET ld == IF cond THEN bn.dense ELSE targets_c
             IN  IF is_dense
                 THEN IF RLess(rnd.ptc_u, ptc)
                      THEN ld ELSE bottleneck(inputs_c, hp, ema_count).dense
                 ELSE ld
        ELSE IF is_dense
             THEN bottleneck(inputs_c, hp, ema_count).dense
             ELSE embedded(cache.x)
      losses_extra == IF predicting THEN Zero ELSE RMul(bn.extra_loss, cond_f)
      losses_latent_pred ==
        IF predicting THEN Zero
        ELSE IF is_dense
             THEN squared_difference_loss(inputs_c, targets_c)
             ELSE RMul(RMul(lp_reduced, cond_f), hp.prior_scale)
      losses_neg_q_entropy ==
        IF predicting \/ is_dense THEN Zero
        ELSE RMul(bn.neg_q_entropy, hp.entropy_scale)
      d == decompress(add_positional_embedding(latents_dense),
                      hp.num_compress_steps, inputs, hp)
      masking == masking_weight(hp, step, pm, rnd.unmask_u)
      mask == mask_of(masking, rnd.mask_u)
      masked(x) == IF hp.do_mask THEN blend(mask, targets, x) ELSE x
      decoder_input == masked(d)
      res0 == decode_transformer(mem, decoder_input, hp.causal)
      refined(r) == IF hp.do_mask /\ hp.do_refine /\ SeqSum(mask) = 0
                    THEN encode(r) ELSE r
      res1 == refined(res0)
      res == truncate(res1, original_len)
      stages == latent_stages(hp, ~inputs_arg.none, sampler_ran)
  IN
  IF ~asserts \/ ~sampler_ok
  THEN \* Line 250 (AssertionError) or, from the sampler, line 276
       \* (ValueError).
       [status |-> "error",
        error |-> IF ~asserts THEN "AssertionError" ELSE sample.error,
        losses |-> ZeroLosses, predict_mask |-> pm,
        decoder_input |-> <<>>, cache_arg |-> cache_arg,
        steps |-> stages,
        bottleneck_modes |-> bottleneck_modes(hp),
        summaries |-> summaries_of(hp, summaries_on, FALSE)]
  ELSE IF hp.do_mask /\ ~blend_shapes_ok(targets, d)
  THEN [status |-> "error", error |-> "IncompatibleShapes",
        losses |-> ZeroLosses, predict_mask |-> pm,
        decoder_input |-> <<>>, cache_arg |-> cache_arg,
        steps |-> stages \o <<"decompress">>,
        bottleneck_modes |-> bottleneck_modes(hp),
        summaries |-> summaries_of(hp, summaries_on, TRUE)]
  ELSE
  [status |-> "returned",
   res |-> res,
   losses |-> [extra |-> losses_extra,
               latent_pred |-> RMul(losses_latent_pred, latent_time(hp, step)),
               neg_q_entropy |-> losses_neg_q_entropy],
   latent_pred_computed |-> losses_latent_pred,
   inputs_c |-> IF is_dense THEN inputs_c ELSE <<>>,
   steps |-> stages \o decoder_stages(hp),
   bottleneck_modes |-> bottleneck_modes(hp),
   summaries |-> summaries_of(hp, summaries_on, TRUE),
   cache |-> cache,
   data_dim |-> Len(res),
   latent_dim |-> Len(targets_c),
   original_len |-> original_len,
   predict_mask |-> pm,
   targets |-> targets,
   targets_noisy |-> noisy,
   targets_c |-> targets_c,
   latents_dense |-> latents_dense,
   d |-> d,
   masked |-> hp.do_mask,
   masking |-> IF hp.do_mask THEN masking ELSE Zero,
   mask |-> IF hp.do_mask THEN mask ELSE <<>>,
   mask_u |-> IF hp.do_mask THEN rnd.mask_u ELSE <<>>,
   decoder_input |-> decoder_input,
   cache_arg |-> cache_arg,
   sampler_ran |-> sampler_ran]

(***************************************************************************)
(* The states before any call.                                             *)
(***************************************************************************)
NoFrame == [status |-> "none"]
NoSoftmax == [status |-> "none"]
NoArgs == [latent_length |-> 0, batch_size |-> 0, has_inputs |-> FALSE, inputs |-> <<>>, iters |-> 0, w |-> 0]

NoTimeStep == [status |-> "none"]

\* Nothing constructed besides the states of the forward pass.
NoModel == [status |-> "none", session |-> "idle", summary |-> FALSE]

NoFeatures == [has_inputs |-> FALSE, has_partial_targets |-> FALSE, has_cache_raw |-> FALSE, cache_raw |-> None]

OthersIdle ==
  /\ features = NoFeatures
  /\ sampler_calls = 0
  /\ model = NoModel
  /\ ts = NoTimeStep
  /\ tsr = NoTimeStep

ForwardIdle ==
  /\ DO_SUMMARIES = TRUE
  /\ global_step = 0
  /\ predict_mask = One
  /\ frame = NoFrame
  /\ ema_updates = 0
  /\ calls = 0
  /\ OthersIdle

SamplerIdle ==
  /\ sargs = NoArgs
  /\ spc = "idle"
  /\ path = "none"
  /\ latents_discrete = <<>>
  /\ latents_discrete_prev = <<>>
  /\ i = 0
  /\ beam_ids = <<>>

(***************************************************************************)
(* The latent sampler, one call of ae_latent_sample stepped through its    *)
(* loop.                                                                   *)
(***************************************************************************)
SamplingTemps == {R(-1, 1), Zero, One}

SamplerConfigs ==
  {[SmallHparams EXCEPT !.num_decode_blocks = k, !.sampling_temp = t] :
     k \in 0..MaxDecodeBlocks, t \in SamplingTemps}

\* The calls explored: rows of up to MaxLatentLen positions one at a time,
\* batches of up to MaxBatch rows of up to MaxShortLen positions, and, with
\* multinomial sampling (where neither the inputs nor the weights decide the
\* outcome), single rows of up to MaxShortLen positions.  has_inputs tells
\* whether inputs (and ed) is a tensor or None; inputs holds, per batch
\* row, what the decoders read of it (0 when it is None).
SamplerArgs(hp) ==
  LET noisy == RLess(Zero, hp.sampling_temp)
      call(len, bs, has, inp, w) ==
        [latent_length |-> len, batch_size |-> bs, has_inputs |-> has,
         inputs |-> inp, iters |-> ITERS, w |-> w]
      long == {call(len, 1, TRUE, inp, w) :
                 len \in 1..MaxLatentLen, inp \in [1..1 -> 0..1],
                 w \in 0..MaxWeights}
      batched == UNION {{call(len, bs, TRUE, inp, w) :
                           len \in 1..MaxShortLen, inp \in [1..bs -> 0..1],
                           w \in 0..MaxWeights} : bs \in 1..MaxBatch}
      without == UNION {{call(len, bs, FALSE, [b \in 1..bs |-> 0], w) :
                           len \in 1..MaxShortLen, w \in 0..MaxWeights} :
                          bs \in 1..MaxBatch}
      sampled == {call(len, 1, has, <<0>>, 0) :
                    len \in 1..MaxShortLen, has \in BOOLEAN}
  IN  IF noisy THEN sampled ELSE long \cup batched \cup without

SamplerInit ==
  /\ hparams \in SamplerConfigs
  /\ sargs \in SamplerArgs(hparams)
  /\ spc = "start"
  /\ path = "none"
  /\ latents_discrete = <<>>
  /\ latents_discrete_prev = <<>>
  /\ i = 0
  /\ beam_ids = <<>>
  /\ ForwardIdle
  /\ softmax = NoSoftmax

\* Lines 305-308: the beam-search path; without inputs the call raises at
\* line 276.
AeLatentSampleBeam ==
  /\ spc = "start"
  /\ takes_beam_path(hparams)
  /\ path' = "beam"
  /\ LET row(b) == IF sargs.has_inputs THEN Some(<<sargs.inputs[b]>>)
                                        ELSE None
         res(b) == ae_latent_sample_beam(zeros(sargs.latent_length), row(b),
                                         hparams, sargs.w)
     IN  IF \A b \in 1..sargs.batch_size : res(b).status = "returned"
         THEN /\ latents_discrete' =
                   [b \in 1..sargs.batch_size |-> res(b).latents]
              /\ beam_ids' =
                   [b \in 1..sargs.batch_size |->
                      first_beam(zeros(sargs.latent_length), sargs.inputs[b],
                                 hparams, sargs.w)]
              /\ spc' = "returned"
         ELSE /\ spc' = "error"
              /\ UNCHANGED <<latents_discrete, beam_ids>>
  /\ UNCHANGED <<hparams, fvars, dvars, ovars, softmax, sargs, latents_discrete_prev, i>>

\* Lines 309-310: the first full prediction of the iterative path.
AeLatentSampleFirst ==
  /\ spc = "start"
  /\ ~takes_beam_path(hparams)
  /\ path' = "iterative"
  /\ IF ae_latent_softmax_ok(hparams)
     THEN /\ \E draws \in [1..sargs.batch_size ->
                             Draws(hparams, sargs.latent_length)] :
               latents_discrete' =
                 [b \in 1..sargs.batch_size |->
                    latent_predict(zeros(sargs.latent_length), sargs.inputs[b],
                                   hparams, sargs.w, draws[b])]
          /\ spc' = "loop"
     ELSE /\ spc' = "error"
          /\ UNCHANGED latents_discrete
  /\ UNCHANGED <<hparams, fvars, dvars, ovars, softmax, sargs,
                 latents_discrete_prev, i, beam_ids>>

\* Lines 322-323: one round of the loop, latents_discrete = next_bit(.., i),
\* made while i is below rounds.
NextBitWhile(rounds) ==
  /\ spc = "loop"
  /\ i < rounds
  /\ \E draws \in [1..sargs.batch_size ->
                     Draws(hparams, sargs.latent_length)] :
       latents_discrete' =
         [b \in 1..sargs.batch_size |->
            next_bit(latents_discrete[b], i, sargs.inputs[b], hparams,
                     sargs.w, draws[b])]
  /\ latents_discrete_prev' = latents_discrete
  /\ i' = i + 1
  /\ UNCHANGED <<hparams, fvars, dvars, ovars, softmax, sargs, spc, path, beam_ids>>

\* A loop over the positions of the latent sequence instead of range(iters).
NextBitPerPosition == NextBitWhile(sargs.latent_length)

\* for i in range(iters)
NextBit == NextBitWhile(sargs.iters)

\* Line 324: return latents_discrete.
AeLatentSampleReturn ==
  /\ spc = "loop"
  /\ i >= sargs.iters
  /\ spc' = "returned"
  /\ UNCHANGED <<hparams, fvars, dvars, ovars, softmax, sargs, path, latents_discrete,
                 latents_discrete_prev, i, beam_ids>>

SamplerNext ==
  \/ AeLatentSampleBeam
  \/ AeLatentSampleFirst
  \/ NextBit
  \/ AeLatentSampleReturn

SamplerSpec == SamplerInit /\ [][SamplerNext]_vars

(***************************************************************************)
(* The latent predictor, one call of ae_latent_softmax on one position.    *)
(***************************************************************************)
SoftmaxConfigs ==
  {[DefaultHparams EXCEPT !.z_size = z, !.num_decode_blocks = k,
                          !.sampling_temp = t] :
     z \in 1..MaxZ, k \in 1..MaxDecodeBlocks, t \in {Zero, One}}

SoftmaxInit ==
  /\ hparams \in SoftmaxConfigs
  /\ softmax = NoSoftmax
  /\ ForwardIdle
  /\ SamplerIdle

\* ae_latent_softmax(latents_pred, latents_discrete, hparams) for a
\* prediction pred and a code of the bottleneck.
AeLatentSoftmax ==
  /\ softmax.status = "none"
  /\ \E code \in 0..(vocab_size(hparams) - 1), pred \in {embed(0), embed(1)},
        draws \in Draws(hparams, 1) :
       softmax' =
         IF ae_latent_softmax_ok(hparams)
         THEN [status |-> "returned",
               latents_discrete |-> code,
               labels |-> ae_latent_softmax_labels(code, hparams),
               samples |-> [b \in 1..num_heads(hparams) |->
                              head_samples(<<pred>>, hparams, 0, draws)[b][1]],
               sample |-> ae_latent_softmax_sample(<<pred>>, hparams, 0, draws)[1]]
         ELSE [status |-> "error"]
  /\ UNCHANGED <<hparams, fvars, dvars, ovars, svars>>

SoftmaxNext == AeLatentSoftmax

SoftmaxSpec == SoftmaxInit /\ [][SoftmaxNext]_vars

(***************************************************************************)
(* The forward pass, one call of ae_transformer_internal per behaviour.    *)
(***************************************************************************)
Modes == {"TRAIN", "EVAL", "PREDICT"}
BottleneckKinds == {"dense", "vae", "semhash", "dvq"}

\* Outcomes of tf.random_uniform, which draws from [0, 1).
Uniform01 == {Zero, R(1, 2), R(999, 1000)}

\* The per-position draws of the mask: the same draw at every position, or
\* one position drawn apart from the others; that position is one the
\* targets can fill (beyond MaxShortLen lies their padding).
SameDraws(len) == {[p \in 1..len |-> u] : u \in Uniform01}
MaskDraws(len) ==
  SameDraws(len)
    \cup {[p \in 1..len |-> IF p = q THEN u[1] ELSE u[2]] :
            q \in 1..Min(len, MaxShortLen), u \in Uniform01 \X Uniform01}

\* The noise of the word shuffle over len positions, drawn from
\* [0, 1 + word_shuffle): no noise anywhere or, with swaps, a noise of 5/4
\* at one position, which moves that target behind its right neighbour.
ShuffleDraws(len, swaps) ==
  {[p \in 1..len |-> IF p = q THEN R(5, 4) ELSE Zero] :
     q \in IF swaps THEN 0..len ELSE {0}}

\* The draws one call makes under hp, each where the code makes it; the
\* per-position draws of the mask are taken from mask_draws (the word
\* dropout draws from the same set), the noise of the word shuffle from
\* shuffle_draws.
Draws01(hp, mask_draws, latent_len, shuffle_draws) ==
  LET training == hp.mode # "PREDICT"
      is_dense == hp.bottleneck_kind \in {"dense", "vae"}
  IN  [shuffle_u : IF hp.do_ae /\ hp.word_shuffle # Zero THEN shuffle_draws
                   ELSE {<<>>},
       dropout_u : IF hp.do_ae /\ hp.word_dropout # Zero
                   THEN mask_draws ELSE {<<>>},
       cond_u : IF hp.do_ae /\ training THEN Uniform01 ELSE {Zero},
       ptc_u : IF hp.do_ae /\ training /\ is_dense THEN Uniform01 ELSE {Zero},
       unmask_u : IF hp.do_ae /\ hp.do_mask /\ ~hp.do_refine
                  THEN Uniform01 ELSE {Zero},
       mask_u : IF hp.do_ae /\ hp.do_mask THEN mask_draws
                ELSE {<<>>},
       sampled : IF hp.do_ae /\ ~training /\ ~is_dense
                      /\ RLess(Zero, hp.sampling_temp)
                 THEN {[p \in 1..latent_len |-> c] : c \in 0..1}
                 ELSE {<<>>}]

ForwardInputs == {None} \cup {Some([p \in 1..len |-> 1]) : len \in 1..MaxInputLen}

\* The length of the cache that prepare_features_for_infer computes, from
\* targets of length 1 and inputs of length 1 or None (lines 664-671).
prepared_cache_length(has_inputs, hp) ==
  padded_length(IF has_inputs THEN Some(<<0>>) ELSE None, <<0>>, hp)
    \div Pow(2, hp.num_compress_steps)

\* The cache argument: absent, a latent code of the compressed length of
\* the call, or one of the length that prepare_features_for_infer computes.
Caches(latent_len, has_inputs, hp) ==
  {None, Some([p \in 1..latent_len |-> 1]),
   Some([p \in 1..prepared_cache_length(has_inputs, hp) |-> 1])}

\* The values of predict_mask that TransformerAE holds (lines 549, 712, 725).
PredictMasks == {One, Zero}

\* The modes with and without the autoencoder and the masking: under
\* SmallHparams for every bottleneck kind and number of halvings, under
\* DefaultHparams as transformer_ae_small sets them.
ForwardConfigs ==
  {[SmallHparams EXCEPT !.mode = m, !.bottleneck_kind = kind,
                        !.do_ae = ae, !.do_mask = dm,
                        !.num_compress_steps = n] :
     m \in Modes, kind \in BottleneckKinds, ae \in BOOLEAN, dm \in BOOLEAN,
     n \in 0..MaxCompressSteps}
    \cup
  {[DefaultHparams EXCEPT !.mode = m, !.do_ae = ae, !.do_mask = dm] :
     m \in Modes, ae \in BOOLEAN, dm \in BOOLEAN}

\* The global steps: the first one and one after both schedules have ended
\* (step 9 under SmallHparams, step 50001 under DefaultHparams).
Init ==
  /\ hparams \in ForwardConfigs
  /\ DO_SUMMARIES = TRUE
  /\ global_step \in {0, hparams.mask_startup_steps + 1}
  /\ predict_mask = One
  /\ frame = NoFrame
  /\ ema_updates = 0
  /\ calls = 0
  /\ OthersIdle
  /\ SamplerIdle
  /\ softmax = NoSoftmax

\* The application of the bottleneck that updates the codebook/EMA
\* statistics: the vector-quantization kind with EMA, in training.
updates_codebook(hp, mode) ==
  hp.bottleneck_kind = "dvq" /\ hp.ema /\ mode = "TRAIN"

\* The updates of the statistics that one returned call applies.
codebook_updates(hp, fr) ==
  IF fr.status # "returned" THEN 0
  ELSE Cardinality({k \in 1..Len(fr.bottleneck_modes) :
                      updates_codebook(hp, fr.bottleneck_modes[k])})

\* The flag set from do_refine at every call.
do_summaries_reset(hp, flag) == ~hp.do_refine

\* Lines 335-337: if hparams.do_refine: _DO_SUMMARIES = False.
do_summaries_after(hp, flag) == IF hp.do_refine THEN FALSE ELSE flag

\* What one call under hp leaves behind: the locals of the call, the flag
\* _DO_SUMMARIES (lines 335-337, before anything reads it) and the
\* statistics of the bottleneck; the call reads the statistics that the
\* earlier calls left.
ForwardPass(hp, inputs, targets, cache, pm, rnd) ==
  /\ frame' = ae_transformer_internal(
                 inputs, targets, 0, hp, cache, pm, global_step, rnd,
                 do_summaries_after(hp, DO_SUMMARIES), ema_updates)
  /\ DO_SUMMARIES' = do_summaries_after(hp, DO_SUMMARIES)
  /\ ema_updates' = ema_updates + codebook_updates(hp, frame')
  /\ calls' = calls + 1

\* One call ae_transformer_internal(inputs, targets, target_space, hparams,
\* cache, predict_mask) at the global step of the state.
AeTransformerInternal ==
  /\ frame.status = "none"
  /\ \E inputs \in ForwardInputs,
        targets \in {[p \in 1..len |-> p] : len \in 1..MaxTargetLen},
        pm \in PredictMasks :
       LET padded == padded_length(inputs, targets, hparams)
           latent_len == padded \div Pow(2, hparams.num_compress_steps)
       IN  \E cache \in Caches(latent_len, ~inputs.none, hparams),
              rnd \in Draws01(hparams, SameDraws(padded), latent_len,
                                ShuffleDraws(Len(targets), FALSE)) :
             ForwardPass(hparams, inputs, targets, cache, pm, rnd)
  /\ UNCHANGED <<hparams, global_step, predict_mask, dvars, svars, softmax,
                 ovars>>

Next == AeTransformerInternal

Spec == Init /\ [][Next]_vars

(***************************************************************************)
(* The masking of the forward pass over the options that feed the masking  *)
(* weight and over the training steps.                                     *)
(***************************************************************************)
\* Under SmallHparams every mode and every sign of unmasked_percentage;
\* under DefaultHparams the passes that compute the masking weight from
\* the schedules, those of TRAIN and EVAL.
MaskConfigs ==
  {[SmallHparams EXCEPT !.mode = m, !.do_refine = dr,
                        !.use_predict_mask = upm,
                        !.unmasked_percentage = up] :
     m \in Modes, dr \in BOOLEAN, upm \in BOOLEAN,
     up \in {R(-2, 1), Zero, R(1, 10)}}
    \cup
  {[DefaultHparams EXCEPT !.mode = m, !.do_refine = dr,
                          !.use_predict_mask = upm] :
     m \in {"TRAIN", "EVAL"}, dr \in BOOLEAN, upm \in BOOLEAN}

\* The global steps: every step up to MaxStep under the schedules of
\* SmallHparams; under those of DefaultHparams the first step, a quarter
\* and a half of mask_startup_steps, its end and the step after.
MaskInit ==
  /\ hparams \in MaskConfigs
  /\ DO_SUMMARIES = TRUE
  /\ global_step \in IF hparams.mask_startup_steps < MaxStep
                      THEN 0..MaxStep
                      ELSE {0, hparams.mask_startup_steps \div 4,
                            hparams.mask_startup_steps \div 2,
                            hparams.mask_startup_steps,
                            hparams.mask_startup_steps + 1}
  /\ predict_mask = One
  /\ frame = NoFrame
  /\ ema_updates = 0
  /\ calls = 0
  /\ OthersIdle
  /\ SamplerIdle
  /\ softmax = NoSoftmax

\* The call on targets of up to MaxShortLen positions, with inputs of one
\* position or without inputs, without a cache.
AeTransformerInternalMask ==
  /\ frame.status = "none"
  /\ \E len \in 1..MaxShortLen, pm \in PredictMasks,
        inputs \in {None, Some(<<1>>)} :
       LET targets == [p \in 1..len |-> p]
           padded == padded_length(inputs, targets, hparams)
           latent_len == padded \div Pow(2, hparams.num_compress_steps)
       IN  \E rnd \in Draws01(hparams, MaskDraws(padded), latent_len,
                                ShuffleDraws(len, FALSE)) :
             ForwardPass(hparams, inputs, targets, None, pm, rnd)
  /\ UNCHANGED <<hparams, global_step, predict_mask, dvars, svars, softmax,
                 ovars>>

MaskNext == AeTransformerInternalMask

MaskSpec == MaskInit /\ [][MaskNext]_vars

(***************************************************************************)
(* C1: ae_latent_sample takes the beam-search path if and only if          *)
(* num_decode_blocks < 2 and sampling_temp is exactly 0.0, and the         *)
(* iterative refinement path for every other combination; with             *)
(* num_decode_blocks = 1 and sampling_temp = 0.0 it takes the beam path.   *)
(***************************************************************************)
C1_BeamPathIff ==
  spc \in {"loop", "returned", "error"} =>
    /\ path \in {"beam", "iterative"}
    /\ (path = "beam") <=>
         (hparams.num_decode_blocks < 2 /\ hparams.sampling_temp = R(0, 1))
    /\ (hparams.num_decode_blocks = 1 /\ hparams.sampling_temp = R(0, 1))
         => path = "beam"

C1_Witness ==
  /\ spc = "returned"
  /\ path = "beam"
  /\ hparams.num_decode_blocks = 1
  /\ hparams.sampling_temp = R(0, 1)

(***************************************************************************)
(* C6: for every batch size >= 1 and every latent_length, the beam search  *)
(* is seeded with one all-zero token and run for latent_length steps, only *)
(* the seed token is removed from the first beam, and the output of        *)
(* ae_latent_sample_beam has exactly latent_length positions per batch     *)
(* element.                                                                *)
(***************************************************************************)
C6_BeamOutputLength ==
  (spc = "returned" /\ path = "beam") =>
    /\ DOMAIN latents_discrete = 1..sargs.batch_size
    /\ \A b \in 1..sargs.batch_size :
         /\ Len(beam_ids[b]) = sargs.latent_length + 1
         /\ beam_ids[b][1] = 0
         /\ Len(latents_discrete[b]) = sargs.latent_length
         /\ \A p \in 1..sargs.latent_length :
              latents_discrete[b][p] = beam_ids[b][p + 1]

C6_Witness ==
  /\ spc = "returned"
  /\ path = "beam"
  /\ sargs.batch_size = 2
  /\ sargs.latent_length = 2
  /\ \E p \in 1..2 : latents_discrete[2][p] # 0

(***************************************************************************)
(* C7: in the iterative refinement mode the committed positions are a      *)
(* prefix that only grows: round i of the loop leaves positions 0..i as    *)
(* they were, so that once round i has run no later round changes them,    *)
(* and it is the positions after that prefix that take the model's current *)
(* prediction.                                                             *)
(***************************************************************************)
C7_CommittedPrefix ==
  [][(spc = "loop" /\ spc' = "loop") =>
       /\ i' = i + 1
       /\ \A b \in 1..sargs.batch_size :
            /\ Len(latents_discrete'[b]) = sargs.latent_length
            /\ \A p \in 1..Min(i + 1, sargs.latent_length) :
                 latents_discrete'[b][p] = latents_discrete[b][p]
            /\ ~RLess(R(0, 1), hparams.sampling_temp) =>
                 \A p \in (i + 2)..sargs.latent_length :
                   latents_discrete'[b][p] =
                     latent_predict(
                       [q \in 1..sargs.latent_length |->
                          embed(latents_discrete[b][q])],
                       sargs.inputs[b], hparams, sargs.w,
                       NoDraws(hparams, sargs.latent_length))[p]]_vars

\* A round that overwrote a position after the prefix it kept.
C7_Witness ==
  /\ spc = "loop"
  /\ i >= 2
  /\ \E b \in 1..sargs.batch_size :
       /\ \A p \in 1..Min(i, sargs.latent_length) :
            latents_discrete[b][p] = latents_discrete_prev[b][p]
       /\ \E p \in (i + 1)..sargs.latent_length :
            latents_discrete[b][p] # latents_discrete_prev[b][p]

(***************************************************************************)
(* C8, as claimed: when ae_latent_sample returns from the iterative path,  *)
(* every position of the latent sequence has been fixed by its own         *)
(* transition (position p by round p of the loop), for every               *)
(* latent_length.                                                          *)
(***************************************************************************)
C8_EveryPositionFixed ==
  (spc = "returned" /\ path = "iterative") =>
    \A p \in 0..(sargs.latent_length - 1) : p < i

(***************************************************************************)
(* C8, amended: the iterative sampler makes iters = 16 transitions, rounds *)
(* 0..15, whatever the latent length; when it returns, the positions below *)
(* min(16, latent_length) have been fixed by a transition of their own,    *)
(* and with latent_length > 16 the positions from 16 on hold the last      *)
(* round's prediction without one.                                         *)
(***************************************************************************)
C8_SixteenTransitions ==
  /\ spc = "loop" => i <= 16
  /\ (spc = "returned" /\ path = "iterative") =>
       /\ i = 16
       /\ \A p \in 0..(sargs.latent_length - 1) : (p < i) <=> (p < 16)
       /\ sargs.latent_length <= 16 =>
            \A p \in 0..(sargs.latent_length - 1) : p < i
       /\ sargs.latent_length > 16 =>
            \A p \in 16..(sargs.latent_length - 1) : ~(p < i)

C8_Witness ==
  /\ spc = "returned"
  /\ path = "iterative"
  /\ sargs.latent_length = 17
  /\ i = 16

(***************************************************************************)
(* C3: in the multi-block case of ae_latent_softmax the mixed-radix        *)
(* composition and decomposition are inverse: the composed sample of the   *)
(* digits (d_0, ..., d_{k-1}), each in [0, block_vocab_size), decomposes   *)
(* with floormod(floordiv(sample, block_vocab_size^i), block_vocab_size)   *)
(* into d_i for every i and lies in [0, 2^z_size); and the digits of a     *)
(* code compose to the code.                                               *)
(***************************************************************************)
C3_MixedRadixInverse ==
  (softmax.status = "returned" /\ hparams.num_decode_blocks >= 2) =>
    LET k == hparams.num_decode_blocks
        bvs == Pow(2, hparams.z_size \div k)
    IN  /\ Len(softmax.samples) = k
        /\ \A b \in 1..k :
             /\ softmax.samples[b] \in 0..(bvs - 1)
             /\ (softmax.sample \div Pow(bvs, b - 1)) % bvs = softmax.samples[b]
        /\ softmax.sample \in 0..(Pow(2, hparams.z_size) - 1)
        /\ Len(softmax.labels) = k
        /\ \A b \in 1..k : softmax.labels[b] \in 0..(bvs - 1)
        /\ SeqSum([b \in 1..k |-> softmax.labels[b] * Pow(bvs, b - 1)])
             = softmax.latents_discrete

C3_Witness ==
  /\ softmax.status = "returned"
  /\ hparams.num_decode_blocks = 3
  /\ hparams.z_size = 6
  /\ softmax.samples = <<1, 2, 3>>
  /\ softmax.sample = 57
  /\ softmax.latents_discrete = 27
  /\ softmax.labels = <<3, 2, 1>>

(***************************************************************************)
(* C2: after every forward pass of ae_transformer_internal, for every      *)
(* mode, every bottleneck kind and do_ae on or off, a loss dictionary is   *)
(* returned that has exactly the three keys extra, latent_pred and         *)
(* neg_q_entropy, and each key whose loss is not computed in that          *)
(* configuration holds zero.                                               *)
(***************************************************************************)
C2_ThreeLossKeys ==
  frame.status # "none" =>
    /\ frame.status = "returned"
    /\ DOMAIN frame.losses = {"extra", "latent_pred", "neg_q_entropy"}
    /\ (~hparams.do_ae \/ hparams.mode = "PREDICT") =>
         /\ frame.losses.extra = R(0, 1)
         /\ frame.losses.latent_pred = R(0, 1)
         /\ frame.losses.neg_q_entropy = R(0, 1)
    /\ hparams.bottleneck_kind \in {"dense", "vae"} =>
         frame.losses.neg_q_entropy = R(0, 1)

(***************************************************************************)
(* C4: with do_mask set, the masking weight that is compared with the      *)
(* per-position draws lies in [0, 1], for every training step, every draw  *)
(* and every setting of do_refine, unmasked_percentage, use_predict_mask   *)
(* and mode.                                                               *)
(***************************************************************************)
C4_MaskingInUnitInterval ==
  (frame.status = "returned" /\ frame.masked) =>
    /\ frame.masking[2] > 0
    /\ 0 <= frame.masking[1]
    /\ frame.masking[1] <= frame.masking[2]

\* A training pass at step 0 whose schedule value less the unmasked share
\* is below zero, compared with the draws as 0.
C4_Witness ==
  /\ frame.status = "returned"
  /\ frame.masked
  /\ hparams.mode = "TRAIN"
  /\ ~hparams.use_predict_mask
  /\ ~hparams.do_refine
  /\ hparams.unmasked_percentage = R(1, 10)
  /\ global_step = 0
  /\ frame.masking = R(0, 1)
  /\ \E p \in 1..Len(frame.mask) : frame.mask[p] = 1

(***************************************************************************)
(* C5, as claimed: in PREDICT mode with do_mask set the masking weight is  *)
(* the supplied predict_mask, and the decoder input is the true target at  *)
(* every position when predict_mask = 1.0 and the decompressed latent      *)
(* reconstruction at every position when predict_mask = 0.0.               *)
(***************************************************************************)
C5_PredictMaskAsClaimed ==
  (frame.status = "returned" /\ frame.masked /\ hparams.mode = "PREDICT") =>
    /\ frame.masking = frame.predict_mask
    /\ frame.predict_mask = R(1, 1) => frame.decoder_input = frame.targets
    /\ frame.predict_mask = R(0, 1) => frame.decoder_input = frame.d

(***************************************************************************)
(* C5, amended: in PREDICT mode with do_mask set the masking weight is the *)
(* supplied predict_mask; a position takes the target where the weight is  *)
(* below its draw and the decompressed latent elsewhere, so that with      *)
(* predict_mask = 1.0 the decoder input is the decompressed latent at      *)
(* every position, and with predict_mask = 0.0 it is the target at every   *)
(* position whose draw is above 0 and the decompressed latent where the    *)
(* draw is exactly 0.                                                      *)
(***************************************************************************)
C5_PredictMaskBlend ==
  (frame.status = "returned" /\ frame.masked /\ hparams.mode = "PREDICT") =>
    /\ frame.masking = frame.predict_mask
    /\ Len(frame.decoder_input) = Len(frame.targets)
    /\ Len(frame.d) = Len(frame.targets)
    /\ frame.predict_mask = R(1, 1) => frame.decoder_input = frame.d
    /\ frame.predict_mask = R(0, 1) =>
         \A p \in 1..Len(frame.targets) :
           frame.decoder_input[p] =
             IF frame.mask_u[p][1] > 0 THEN frame.targets[p] ELSE frame.d[p]

\* An inference pass with predict_mask = 0.0 that reads the target at one
\* position and, where the draw is 0, the decompressed latent at another.
C5_Witness ==
  /\ frame.status = "returned"
  /\ frame.masked
  /\ hparams.mode = "PREDICT"
  /\ frame.predict_mask = R(0, 1)
  /\ \A p \in 1..Len(frame.targets) : frame.targets[p] # frame.d[p]
  /\ \E p, q \in 1..Len(frame.targets) :
       /\ frame.decoder_input[p] = frame.targets[p]
       /\ frame.decoder_input[q] = frame.d[q]

(***************************************************************************)
(* C9: the targets are padded to a length L that is a multiple of          *)
(* 2^num_compress_steps; compress yields L / 2^num_compress_steps          *)
(* positions, the decompression loop multiplies the length of what it is   *)
(* given by 2^num_compress_steps, and run on latents of the compressed     *)
(* length it yields exactly L positions, for every num_compress_steps >= 0.*)
(***************************************************************************)
C9_RoundTripLength ==
  frame.status = "returned" =>
    LET L == Len(frame.targets)
        k == Pow(2, hparams.num_compress_steps)
    IN  /\ L % k = 0
        /\ Len(frame.targets_c) * k = L
        /\ Len(frame.d) = Len(frame.latents_dense) * k
        /\ Len(frame.latents_dense) = Len(frame.targets_c) => Len(frame.d) = L

\* Targets of length 3 padded to 4, compressed twice to 1 and decompressed
\* twice to 4.
C9_Witness ==
  /\ frame.status = "returned"
  /\ hparams.num_compress_steps = 2
  /\ frame.original_len = 3
  /\ Len(frame.targets) = 4
  /\ Len(frame.targets_c) = 1
  /\ Len(frame.latents_dense) = 1
  /\ Len(frame.d) = 4

(***************************************************************************)
(* C10: the output that ae_transformer_internal returns has exactly the    *)
(* original (unpadded) target length on its length axis, for every         *)
(* original length and every amount of padding; the returned data_length   *)
(* is that original length and the returned latent_length is the length of *)
(* the compressed targets.                                                 *)
(***************************************************************************)
C10_OutputLength ==
  frame.status = "returned" =>
    /\ Len(frame.res) = frame.original_len
    /\ frame.data_dim = frame.original_len
    /\ frame.latent_dim = Len(frame.targets_c)


(***************************************************************************)
(* The losses of the forward pass over the modes, the bottleneck kinds and *)
(* the training steps around mask_startup_steps.                           *)
(***************************************************************************)
\* The modes and kinds under SmallHparams and under each of: no word
\* shuffle, a word dropout of 1/2, a decoder that is not causal; the
\* passes that return losses, those of TRAIN and EVAL, under
\* DefaultHparams for every kind.
LossConfigs ==
  {[SmallHparams EXCEPT !.mode = m, !.bottleneck_kind = kind,
                        !.word_shuffle = v[1], !.word_dropout = v[2],
                        !.causal = v[3]] :
     m \in Modes, kind \in BottleneckKinds,
     v \in {<<R(1, 2), Zero, TRUE>>, <<Zero, Zero, TRUE>>,
            <<R(1, 2), R(1, 2), TRUE>>, <<R(1, 2), Zero, FALSE>>}}
    \cup
  {[DefaultHparams EXCEPT !.mode = m, !.bottleneck_kind = kind] :
     m \in {"TRAIN", "EVAL"}, kind \in BottleneckKinds}

\* The global steps: the first, the one at which the exponential schedules
\* of startup_steps and mask_startup_steps have both ended (a quarter of
\* mask_startup_steps), the one at which the linear schedule of
\* mask_startup_steps ends, and the step after.
LossInit ==
  /\ hparams \in LossConfigs
  /\ DO_SUMMARIES = TRUE
  /\ global_step \in {0, hparams.mask_startup_steps \div 4,
                      hparams.mask_startup_steps,
                      hparams.mask_startup_steps + 1}
  /\ predict_mask = One
  /\ frame = NoFrame
  /\ ema_updates = 0
  /\ calls = 0
  /\ OthersIdle
  /\ SamplerIdle
  /\ softmax = NoSoftmax

\* The call on targets of up to MaxShortLen positions, with or without
\* inputs, without a cache, with every outcome of the word shuffle.
AeTransformerInternalLoss ==
  /\ frame.status = "none"
  /\ \E inputs \in ForwardInputs, len \in 1..MaxShortLen :
       LET targets == [p \in 1..len |-> p]
           padded == padded_length(inputs, targets, hparams)
           latent_len == padded \div Pow(2, hparams.num_compress_steps)
       IN  \E rnd \in Draws01(hparams, SameDraws(padded), latent_len,
                                ShuffleDraws(len, TRUE)) :
             ForwardPass(hparams, inputs, targets, None, One, rnd)
  /\ UNCHANGED <<hparams, global_step, predict_mask, dvars, svars, softmax,
                 ovars>>

LossNext == AeTransformerInternalLoss

LossSpec == LossInit /\ [][LossNext]_vars

(***************************************************************************)
(* C11 as stated: with bottleneck_kind = "dense" every forward pass        *)
(* returns neg_q_entropy zero and a latent_pred loss equal to the mean     *)
(* squared difference of the prediction from the inputs and the compressed *)
(* targets times 20, and does not use ae_latent_softmax.  The returned     *)
(* loss is not that product in PREDICT mode nor while the global step has  *)
(* not passed mask_startup_steps.                                          *)
(***************************************************************************)
C11_DenseLossAsClaimed ==
  (frame.status = "returned" /\ hparams.bottleneck_kind = "dense")
    => /\ frame.losses.neg_q_entropy = Zero
       /\ frame.losses.latent_pred
            = RMul(mean_squared_difference(frame.inputs_c, frame.targets_c),
                   R(20, 1))
       /\ \A k \in 1..Len(frame.steps) : frame.steps[k] # "ae_latent_softmax"

(***************************************************************************)
(* C11 amended: with bottleneck_kind = "dense" every forward pass returns  *)
(* neg_q_entropy zero and does not use ae_latent_softmax; in TRAIN and     *)
(* EVAL mode the latent_pred loss it computes is the mean squared          *)
(* difference times 20, returned as it is once the global step exceeds     *)
(* mask_startup_steps and as zero before; in PREDICT mode the returned     *)
(* latent_pred loss is zero.                                               *)
(***************************************************************************)
C11_DenseLoss ==
  (frame.status = "returned" /\ hparams.bottleneck_kind = "dense")
    => /\ frame.losses.neg_q_entropy = Zero
       /\ \A k \in 1..Len(frame.steps) : frame.steps[k] # "ae_latent_softmax"
       /\ hparams.mode # "PREDICT"
            => frame.latent_pred_computed
                 = RMul(mean_squared_difference(frame.inputs_c,
                                                frame.targets_c), R(20, 1))
       /\ frame.losses.latent_pred
            = IF hparams.mode # "PREDICT"
                   /\ hparams.mask_startup_steps < global_step
              THEN RMul(mean_squared_difference(frame.inputs_c,
                                                frame.targets_c), R(20, 1))
              ELSE Zero

\* A dense training pass after mask_startup_steps whose squared difference
\* is not zero, and whose returned loss is 20 times it.
C11_Witness ==
  /\ frame.status = "returned"
  /\ hparams.bottleneck_kind = "dense"
  /\ hparams.mode = "TRAIN"
  /\ hparams.mask_startup_steps < global_step
  /\ mean_squared_difference(frame.inputs_c, frame.targets_c) # Zero
  /\ frame.losses.latent_pred
       = RMul(mean_squared_difference(frame.inputs_c, frame.targets_c),
              R(20, 1))
  /\ frame.losses.latent_pred
       # mean_squared_difference(frame.inputs_c, frame.targets_c)

(***************************************************************************)
(* C20: with do_ae set, the returned latent_pred loss is zero in every     *)
(* forward pass whose global step is at most mask_startup_steps, for every *)
(* bottleneck kind, and is the computed loss unchanged once the global     *)
(* step exceeds mask_startup_steps.                                        *)
(***************************************************************************)
C20_LatentPredGate ==
  (frame.status = "returned" /\ hparams.do_ae)
    => /\ global_step <= hparams.mask_startup_steps
            => frame.losses.latent_pred = Zero
       /\ global_step > hparams.mask_startup_steps
            => frame.losses.latent_pred = frame.latent_pred_computed

\* A pass at the step mask_startup_steps itself that computed a loss other
\* than zero and returned zero.
C20_Witness ==
  /\ frame.status = "returned"
  /\ hparams.do_ae
  /\ global_step = hparams.mask_startup_steps
  /\ frame.latent_pred_computed # Zero
  /\ frame.losses.latent_pred = Zero


(***************************************************************************)
(* A decoding session of a TransformerAE in PREDICT mode.  Without do_mask *)
(* infer hands over to the decoding loop of the base class, which prepares *)
(* the features once and then calls the model once per decoding step; with *)
(* do_mask infer calls the model itself.                                   *)
(***************************************************************************)
MaxCalls == 3

\* n^k <= limit, without computing n^k.
RECURSIVE PowLeq(_, _, _)
PowLeq(n, k, limit) ==
  IF k = 0 THEN 1 <= limit
  ELSE n <= limit /\ PowLeq(n, k - 1, limit \div n)

\* Lines 579-582: int(2**((z_size / num_residuals) / num_blocks)), the
\* divisions being float divisions: the largest n with
\* n^(num_residuals * num_blocks) <= 2^z_size.
block_v_size(hp) ==
  LET k == hp.num_residuals * hp.num_blocks
      limit == Pow(2, hp.z_size)
  IN  Max(1, Cardinality({n \in 1..limit : PowLeq(n, k, limit)}))

\* The construction that raises for an unknown reshape_method whatever the
\* bottleneck kind.
construct_strict(hp, summary) ==
  IF hp.reshape_method \notin {"project", "slice"}
  THEN [status |-> "error", error |-> "ValueError", session |-> "idle", summary |-> summary,
        variables |-> <<>>, block_v_size |-> 0]
  ELSE [status |-> "constructed", error |-> "none", session |-> "idle", summary |-> summary,
        variables |-> <<>>, block_v_size |-> 0]

\* Lines 547-642: TransformerAE.__init__, the variables it creates in the
\* order of creation, or the error it raises; summary is the value of
\* _DO_SUMMARIES that line 576 hands to the bottleneck.
construct(hp, summary) ==
  IF hp.bottleneck_kind \notin {"dvq", "gumbel-softmax-dvq"}
  THEN [status |-> "constructed", error |-> "none", session |-> "idle", summary |-> summary,
        variables |-> <<>>, block_v_size |-> 0]
  ELSE IF hp.reshape_method \notin {"project", "slice"}
  THEN [status |-> "error", error |-> "ValueError", session |-> "idle", summary |-> summary,
        variables |-> <<>>, block_v_size |-> block_v_size(hp)]
  ELSE [status |-> "constructed", error |-> "none", session |-> "idle", summary |-> summary,
        variables |->
          (IF hp.reshape_method = "project" THEN <<"projection">> ELSE <<>>)
            \o <<"means">>
            \o (IF hp.ema THEN <<"ema_count", "ema_means">> ELSE <<>>),
        block_v_size |-> block_v_size(hp)]

\* Line 713: how_many_more_steps = 0.
HOW_MANY_MORE_STEPS == 0

\* Decoding under SmallHparams for every kind, with and without the
\* autoencoder, the masking and a sampling temperature; under
\* DefaultHparams with and without the masking.
DecodeConfigs ==
  {[SmallHparams EXCEPT !.mode = "PREDICT", !.bottleneck_kind = kind,
                        !.do_ae = ae, !.do_mask = dm,
                        !.sampling_temp = t] :
     kind \in BottleneckKinds, ae \in BOOLEAN, dm \in BOOLEAN,
     t \in {Zero, One}}
    \cup
  {[DefaultHparams EXCEPT !.mode = "PREDICT", !.do_mask = dm] :
     dm \in BOOLEAN}

DecodeInit ==
  /\ hparams \in DecodeConfigs
  /\ DO_SUMMARIES = TRUE
  /\ global_step = MaxStep
  /\ predict_mask = One
  /\ frame = NoFrame
  /\ ema_updates = 0
  /\ calls = 0
  /\ features \in {[NoFeatures EXCEPT !.has_inputs = b,
                                       !.has_partial_targets = pt] :
                     b \in BOOLEAN, pt \in BOOLEAN}
  /\ sampler_calls = 0
  /\ model = construct(hparams, TRUE)
  /\ ts = NoTimeStep
  /\ tsr = NoTimeStep
  /\ SamplerIdle
  /\ softmax = NoSoftmax

\* One call of ae_transformer_internal within the session; the session
\* fails if the call raises.
SessionCall(inputs, targets, cache, pm, then) ==
  LET padded == padded_length(inputs, targets, hparams)
      latent_len == padded \div Pow(2, hparams.num_compress_steps)
  IN  /\ \E rnd \in Draws01(hparams, SameDraws(padded), latent_len,
                                ShuffleDraws(Len(targets), FALSE)) :
           ForwardPass(hparams, inputs, targets, cache, pm, rnd)
      /\ sampler_calls' = sampler_calls
                            + (IF sampler_runs(hparams, cache) THEN 1 ELSE 0)
      /\ model' = [model EXCEPT !.session = IF frame'.status = "error"
                                             THEN "failed" ELSE then]

\* Lines 659-672: nothing under do_mask or without do_ae; otherwise one
\* call on zeros of length 1 without a cache, whose cache is stored in
\* features["cache_raw"].  Line 677 sends only sessions without do_mask
\* through the decoding loop that calls it.
PrepareFeaturesForInfer ==
  /\ model.status = "constructed"
  /\ model.session = "idle"
  /\ ~hparams.do_mask
  /\ IF hparams.do_mask \/ ~hparams.do_ae
     THEN /\ model' = [model EXCEPT !.session = "prepared"]
          /\ UNCHANGED <<fvars, dvars>>
     ELSE /\ SessionCall(IF features.has_inputs THEN Some(<<0>>) ELSE None,
                         <<0>>, None, One, "prepared")
          /\ features' = IF frame'.status = "error" THEN features
                         ELSE [features EXCEPT !.has_cache_raw = TRUE,
                                               !.cache_raw = frame'.cache]
          /\ UNCHANGED <<global_step, predict_mask>>
  /\ UNCHANGED <<hparams, svars, softmax, ts, tsr>>

\* One decoding step of the loop: body (lines 644-657) passes
\* features.get("cache_raw", None) and drops the cache that comes back.
Body ==
  /\ model.session = "prepared"
  /\ calls < MaxCalls
  /\ \E len \in 1..MaxShortLen :
       SessionCall(IF features.has_inputs THEN Some(<<1>>) ELSE None,
                   [p \in 1..len |-> p],
                   IF features.has_cache_raw THEN features.cache_raw ELSE None,
                   predict_mask, "prepared")
  /\ UNCHANGED <<hparams, global_step, predict_mask, features, svars,
                 softmax, ts, tsr>>

\* Lines 674-712 under do_mask: one call of the model, with the current
\* predict_mask, on features["partial_targets"] or else on zero targets of
\* twice the length of the inputs (or of infer_targets).  Line 706 reads
\* inputs_or_targets, which is assigned only when there are no partial
\* targets: with partial targets the call of infer ends there in an error.
\* Otherwise predict_mask is set to 0.0 (line 712).
Infer ==
  /\ model.status = "constructed"
  /\ model.session = "idle"
  /\ hparams.do_mask
  /\ \E len \in 1..MaxInputLen :
       SessionCall(IF features.has_inputs THEN Some([p \in 1..len |-> 1])
                                          ELSE None,
                   IF features.has_partial_targets THEN [p \in 1..len |-> p]
                                                   ELSE zeros(2 * len),
                   IF features.has_cache_raw THEN features.cache_raw ELSE None,
                   predict_mask,
                   IF features.has_partial_targets THEN "failed"
                                                   ELSE "more_steps")
  /\ predict_mask' = IF model'.session = "more_steps" THEN Zero
                                                      ELSE predict_mask
  /\ UNCHANGED <<hparams, global_step, features, svars, softmax, ts, tsr>>

\* Lines 713-728 without the assignment of line 725.
InferReturnKeepingMask ==
  /\ model.session = "more_steps"
  /\ model' = [model EXCEPT !.session = "returned"]
  /\ UNCHANGED <<hparams, fvars, dvars, svars, softmax, ts, tsr>>

\* Lines 713-728: the loop over range(how_many_more_steps) has nothing to
\* run, predict_mask is set back to 1.0 and the samples are returned.
InferReturn ==
  /\ model.session = "more_steps"
  /\ predict_mask' = One
  /\ model' = [model EXCEPT !.session = "returned"]
  /\ UNCHANGED <<hparams, DO_SUMMARIES, global_step, frame, ema_updates,
                 calls, dvars, svars, softmax, ts, tsr>>

\* Lines 677-680: without do_mask infer is the decoding loop of the base
\* class, which ends after any number of steps; its outputs are returned
\* and predict_mask is not assigned.
SuperInferReturn ==
  /\ model.session = "prepared"
  /\ ~hparams.do_mask
  /\ model' = [model EXCEPT !.session = "returned"]
  /\ UNCHANGED <<hparams, fvars, dvars, svars, softmax, ts, tsr>>

\* Line 674: infer is called again on the same model with the features of
\* another caller (with or without "inputs" and "partial_targets", never
\* with "cache_raw"); the model object keeps predict_mask and the module
\* keeps _DO_SUMMARIES.
InferAgain ==
  /\ model.session = "returned"
  /\ model' = [model EXCEPT !.session = "idle"]
  /\ features' \in {[NoFeatures EXCEPT !.has_inputs = b,
                                        !.has_partial_targets = pt] :
                      b \in BOOLEAN, pt \in BOOLEAN}
  /\ sampler_calls' = 0
  /\ calls' = 0
  /\ frame' = NoFrame
  /\ UNCHANGED <<hparams, DO_SUMMARIES, global_step, predict_mask,
                 ema_updates, svars, softmax, ts, tsr>>

DecodeNext ==
  \/ PrepareFeaturesForInfer
  \/ Body
  \/ Infer
  \/ InferReturn
  \/ SuperInferReturn
  \/ InferAgain

DecodeSpec == DecodeInit /\ [][DecodeNext]_vars

(***************************************************************************)
(* C12: in PREDICT mode with a discrete bottleneck kind the latent sampler *)
(* runs only when the cache argument is None; a supplied cache is embedded *)
(* and returned unchanged without running the sampler; over a decoding     *)
(* session the sampler runs on the first call only and every later call    *)
(* reuses the code that call produced.                                     *)
(***************************************************************************)
C12_CacheLazyReuse ==
  LET discrete == hparams.bottleneck_kind \notin {"dense", "vae"}
      returned == frame.status = "returned"
  IN  /\ (returned /\ discrete)
           => /\ frame.sampler_ran <=> frame.cache_arg.none
              /\ ~frame.cache_arg.none
                   => /\ frame.cache = frame.cache_arg
                      /\ frame.latents_dense
                           = [p \in 1..Len(frame.cache_arg.x) |->
                                embed(frame.cache_arg.x[p])]
      /\ sampler_calls <= 1
      /\ (hparams.do_mask /\ calls >= 1) => calls = 1 + HOW_MANY_MORE_STEPS
      /\ (discrete /\ hparams.do_ae /\ calls >= 1) => sampler_calls = 1
      /\ (returned /\ discrete /\ calls = 1) => frame.sampler_ran
      /\ (returned /\ discrete /\ calls >= 2)
           => /\ ~frame.sampler_ran
              /\ features.has_cache_raw
              /\ frame.cache_arg = features.cache_raw
              /\ frame.cache = features.cache_raw

\* A session whose first call ran the sampler and whose third call was
\* given the code of the first.
C12_Witness ==
  /\ hparams.bottleneck_kind \notin {"dense", "vae"}
  /\ frame.status = "returned"
  /\ calls = 3
  /\ sampler_calls = 1
  /\ ~frame.sampler_ran
  /\ ~frame.cache_arg.none
  /\ frame.cache = features.cache_raw


(***************************************************************************)
(* C21: predict_mask is 1.0 after construction and after every call of     *)
(* infer that returns, on the branch of the base class as on the branch    *)
(* under do_mask; it is 0.0 only inside infer, after the forward pass of   *)
(* line 704 and before the return; with how_many_more_steps = 0 every      *)
(* forward pass of a decoding session is given predict_mask = 1.0.         *)
(***************************************************************************)
C21_PredictMaskRestored ==
  /\ predict_mask \in {Zero, One}
  /\ model.session \in {"idle", "prepared", "returned"} => predict_mask = One
  /\ predict_mask = Zero
       => /\ model.session = "more_steps"
          /\ hparams.do_mask
          /\ calls = 1 + HOW_MANY_MORE_STEPS
  /\ frame.status # "none" => frame.predict_mask = One

\* A call of infer under do_mask that has returned: its one forward pass
\* was given predict_mask = 1.0 and predict_mask is 1.0 again.
C21_Witness ==
  /\ hparams.do_mask
  /\ model.session = "returned"
  /\ calls = 1 + HOW_MANY_MORE_STEPS
  /\ frame.status = "returned"
  /\ frame.predict_mask = One
  /\ predict_mask = One


(***************************************************************************)
(* C22: ae_transformer_internal returns only when do_ae is set.  With      *)
(* do_ae unset neither original_targets_shape nor targets_c is assigned,   *)
(* the pass runs the encoder (if there are inputs) and the decoder, reads  *)
(* original_targets_shape for the truncation and ends in an                *)
(* UnboundLocalError instead of returning.                                 *)
(***************************************************************************)
C22_ReturnsOnlyUnderDoAe ==
  frame.status # "none" =>
    /\ frame.status = "returned" => hparams.do_ae
    /\ hparams.do_ae
         => /\ locals_assigned(hparams) = {"original_targets_shape", "targets_c"}
            /\ frame.status = "error" => frame.error # "UnboundLocalError"
    /\ ~hparams.do_ae
         => /\ locals_assigned(hparams) = {}
            /\ frame.status = "error"
            /\ frame.error = "UnboundLocalError"
            /\ frame.steps \in {<<"decoder">>, <<"encode", "decoder">>}

\* A pass with inputs and do_ae unset: encoder and decoder ran and the
\* truncation raised.
C22_Witness ==
  /\ ~hparams.do_ae
  /\ calls = 1
  /\ frame.status = "error"
  /\ frame.error = "UnboundLocalError"
  /\ frame.steps = <<"encode", "decoder">>


(***************************************************************************)
(* The construction of a TransformerAE over the bottleneck kinds, the      *)
(* reshape methods and the sizes that the constructor reads.               *)
(***************************************************************************)
MaxBlocks == 2

ConstructKinds == BottleneckKinds \cup {"gumbel-softmax-dvq"}

ConstructConfigs ==
  {[DefaultHparams EXCEPT !.bottleneck_kind = kind, !.reshape_method = rm,
                          !.z_size = z, !.num_blocks = nb,
                          !.num_residuals = nr, !.ema = e] :
     kind \in ConstructKinds, rm \in {"slice", "project", "concat"},
     z \in (1..MaxZ) \cup {DefaultHparams.z_size},
     nb \in 1..MaxBlocks, nr \in 1..MaxBlocks, e \in BOOLEAN}

ConstructInit ==
  /\ hparams \in ConstructConfigs
  /\ ForwardIdle
  /\ SamplerIdle
  /\ softmax = NoSoftmax

\* TransformerAE(hparams, ...): line 549 sets predict_mask, the rest of
\* __init__ succeeds or raises.
Construct ==
  /\ model.status = "none"
  /\ model' = construct(hparams, DO_SUMMARIES)
  /\ predict_mask' = One
  /\ UNCHANGED <<hparams, DO_SUMMARIES, global_step, frame, ema_updates,
                 calls, dvars, svars, softmax, ts, tsr>>

ConstructNext == Construct

ConstructSpec == ConstructInit /\ [][ConstructNext]_vars

(***************************************************************************)
(* C13 as stated: constructing a TransformerAE with a reshape_method other *)
(* than "slice" and "project" fails at construction time for every         *)
(* bottleneck_kind.  The constructor looks at reshape_method only for the  *)
(* kinds "dvq" and "gumbel-softmax-dvq".                                   *)
(***************************************************************************)
C13_UnknownReshapeAlwaysFails ==
  (model.status # "none" /\ hparams.reshape_method \notin {"slice", "project"})
    => model.status = "error"

(***************************************************************************)
(* C13 amended: constructing a TransformerAE with a reshape_method other   *)
(* than "slice" and "project" fails with ValueError at construction time   *)
(* exactly when bottleneck_kind is "dvq" or "gumbel-softmax-dvq"; for      *)
(* every other bottleneck_kind the construction succeeds whatever the      *)
(* reshape_method, and no construction with "slice" or "project" fails.    *)
(***************************************************************************)
C13_UnknownReshapeFailsForDvq ==
  model.status # "none"
    => /\ model.status \in {"constructed", "error"}
       /\ model.status = "error"
            <=> /\ hparams.reshape_method \notin {"slice", "project"}
                /\ hparams.bottleneck_kind \in {"dvq", "gumbel-softmax-dvq"}
       /\ model.status = "error" => model.error = "ValueError"

\* A "dvq" construction that raised ValueError on the reshape_method
\* "concat".
C13_Witness ==
  /\ model.status = "error"
  /\ model.error = "ValueError"
  /\ hparams.bottleneck_kind = "dvq"
  /\ hparams.reshape_method = "concat"


(***************************************************************************)
(* The forward pass over the vocabulary bits and the number of decode      *)
(* blocks, for the modes, the bottleneck kinds and a cache given or not.   *)
(***************************************************************************)
BlocksConfigs ==
  {[SmallHparams EXCEPT !.mode = m, !.bottleneck_kind = kind,
                        !.z_size = z, !.num_decode_blocks = k] :
     m \in Modes, kind \in BottleneckKinds, z \in 1..MaxZ,
     k \in 1..MaxDecodeBlocks}

BlocksInit ==
  /\ hparams \in BlocksConfigs
  /\ DO_SUMMARIES = TRUE
  /\ global_step = MaxStep
  /\ predict_mask = One
  /\ frame = NoFrame
  /\ ema_updates = 0
  /\ calls = 0
  /\ features = NoFeatures
  /\ sampler_calls = 0
  /\ model = construct(hparams, TRUE)
  /\ ts = NoTimeStep
  /\ tsr = NoTimeStep
  /\ SamplerIdle
  /\ softmax = NoSoftmax

\* The call of a constructed model on targets of one position, with or
\* without inputs, with or without a cache of the compressed length.
AeTransformerInternalBlocks ==
  /\ frame.status = "none"
  /\ model.status = "constructed"
  /\ \E inputs \in {None, Some(<<1>>)} :
       LET targets == <<1>>
           padded == padded_length(inputs, targets, hparams)
           latent_len == padded \div Pow(2, hparams.num_compress_steps)
       IN  \E cache \in {None, Some([p \in 1..latent_len |-> 1])},
              rnd \in Draws01(hparams, SameDraws(padded), latent_len,
                                ShuffleDraws(Len(targets), FALSE)) :
             ForwardPass(hparams, inputs, targets, cache, One, rnd)
  /\ UNCHANGED <<hparams, global_step, predict_mask, dvars, svars, softmax,
                 ovars>>

BlocksNext == AeTransformerInternalBlocks

BlocksSpec == BlocksInit /\ [][BlocksNext]_vars

\* The pass reaches ae_latent_softmax: a discrete kind, outside PREDICT or
\* with the sampler run on its iterative path.
reaches_ae_latent_softmax(fr, hp) ==
  /\ hp.do_ae
  /\ hp.bottleneck_kind \notin {"dense", "vae"}
  /\ \/ hp.mode # "PREDICT"
     \/ fr.cache_arg.none /\ ~takes_beam_path(hp)

(***************************************************************************)
(* C14 as stated: whenever z_size is not evenly divisible by the block     *)
(* count the run fails with a precondition violation, and no encoder,      *)
(* compressor, bottleneck or decoder step precedes the check.              *)
(***************************************************************************)
C14_EagerDivisibilityCheck ==
  (frame.status # "none"
     /\ hparams.z_size % hparams.num_decode_blocks # 0)
    => /\ frame.status = "error"
       /\ frame.error = "AssertionError"
       /\ frame.steps = <<>>

(***************************************************************************)
(* C14 amended: the divisibility of z_size by num_decode_blocks is         *)
(* asserted inside ae_latent_softmax, for num_decode_blocks >= 2.  A       *)
(* forward pass fails on it exactly when z_size is not divisible and the   *)
(* pass reaches ae_latent_softmax (a discrete kind in TRAIN or EVAL mode,  *)
(* or in PREDICT mode without a cache); the compressor, the bottleneck and *)
(* the latent decoder, and the encoder if there are inputs, precede the    *)
(* check.  Construction does not check it, and a pass that does not reach  *)
(* ae_latent_softmax never fails on it: it returns whatever z_size is,     *)
(* unless it is the PREDICT pass without a cache and without inputs whose  *)
(* sampler takes the beam path (one decode block) and raises ValueError.   *)
(***************************************************************************)
C14_LazyDivisibilityCheck ==
  frame.status # "none"
    => LET failed == frame.status = "error" /\ frame.error = "AssertionError"
           tiles_none == /\ hparams.mode = "PREDICT"
                         /\ hparams.bottleneck_kind \notin {"dense", "vae"}
                         /\ frame.cache_arg.none
                         /\ takes_beam_path(hparams)
                         /\ frame.steps[1] # "encode"
       IN  /\ model.status = "constructed"
           /\ frame.status \in {"returned", "error"}
           /\ failed
                <=> /\ hparams.z_size % hparams.num_decode_blocks # 0
                    /\ reaches_ae_latent_softmax(frame, hparams)
           /\ failed
                => /\ frame.steps[Len(frame.steps)] = "ae_latent_softmax"
                   /\ \A st \in {"compress", "bottleneck",
                                  "decode_transformer"} :
                        \E k \in 1..(Len(frame.steps) - 1) :
                          frame.steps[k] = st
           /\ (frame.status = "error" /\ ~failed)
                <=> tiles_none
           /\ tiles_none
                => /\ frame.error = "ValueError"
                   /\ hparams.num_decode_blocks = 1

\* A training pass with z_size 3 and 2 decode blocks that failed in
\* ae_latent_softmax after the encoder, the compressor and the bottleneck.
C14_Witness ==
  /\ frame.status = "error"
  /\ frame.error = "AssertionError"
  /\ hparams.mode = "TRAIN"
  /\ hparams.z_size = 3
  /\ hparams.num_decode_blocks = 2
  /\ frame.steps = <<"encode", "compress", "bottleneck", "decode_transformer",
                     "ae_latent_softmax">>


(***************************************************************************)
(* A process that constructs models and runs forward passes one after the  *)
(* other: the module flag _DO_SUMMARIES and the statistics of the          *)
(* bottleneck outlive the passes.  Every pass of a model is run on the     *)
(* same arguments, with the same random draws.                             *)
(***************************************************************************)
ProcessConfigs ==
  {[SmallHparams EXCEPT !.mode = m, !.bottleneck_kind = kind,
                        !.do_refine = dr, !.ema = e] :
     m \in Modes, kind \in BottleneckKinds, dr \in BOOLEAN, e \in BOOLEAN}

ProcessInit ==
  /\ hparams \in ProcessConfigs
  /\ DO_SUMMARIES = TRUE
  /\ global_step \in {0, MaxStep}
  /\ predict_mask = One
  /\ frame = NoFrame
  /\ ema_updates = 0
  /\ calls = 0
  /\ features = NoFeatures
  /\ sampler_calls = 0
  /\ model = construct(hparams, TRUE)
  /\ ts = NoTimeStep
  /\ tsr = NoTimeStep
  /\ SamplerIdle
  /\ softmax = NoSoftmax

\* The targets of the passes of the process; the inputs have one position.
ProcessTargets == <<1, 2>>

\* The random draws of the passes of the process: every draw is 0.
ProcessDraws(hp) ==
  LET padded == padded_length(Some(<<1>>), ProcessTargets, hp)
      latent_len == padded \div Pow(2, hp.num_compress_steps)
  IN  {rnd \in Draws01(hp, SameDraws(padded), latent_len,
                       ShuffleDraws(Len(ProcessTargets), FALSE)) :
         /\ rnd.cond_u = Zero
         /\ rnd.ptc_u = Zero
         /\ rnd.unmask_u = Zero
         /\ \A p \in 1..Len(rnd.mask_u) : rnd.mask_u[p] = Zero}

\* Another model is constructed in the process, under another
\* configuration.
ConstructAnother ==
  /\ calls < MaxCalls
  /\ frame.status # "none"
  /\ \E hp \in ProcessConfigs :
       /\ hparams' = hp
       /\ model' = construct(hp, DO_SUMMARIES)
  /\ predict_mask' = One
  /\ frame' = NoFrame
  /\ UNCHANGED <<DO_SUMMARIES, global_step, ema_updates, calls, dvars, svars,
                 softmax, ts, tsr>>

\* One forward pass of the model of the process.
AeTransformerInternalProcess ==
  /\ calls < MaxCalls
  /\ model.status = "constructed"
  /\ \E rnd \in ProcessDraws(hparams) :
       ForwardPass(hparams, Some(<<1>>), ProcessTargets, None, predict_mask,
                   rnd)
  /\ UNCHANGED <<hparams, global_step, predict_mask, dvars, svars, softmax,
                 ovars>>

ProcessNext ==
  \/ ConstructAnother
  \/ AeTransformerInternalProcess

ProcessSpec == ProcessInit /\ [][ProcessNext]_vars

(***************************************************************************)
(* C15: the codebook/EMA statistics of the bottleneck are updated exactly  *)
(* once per training step: a TRAIN-mode forward pass applies the updating  *)
(* bottleneck exactly once, and no PREDICT-mode forward pass changes the   *)
(* statistics.                                                             *)
(***************************************************************************)
C15_EmaOncePerTrainStep ==
  [][(calls' = calls + 1 /\ frame'.status = "returned")
       => /\ (hparams.mode = "TRAIN" /\ hparams.bottleneck_kind = "dvq"
                /\ hparams.ema)
               => /\ ema_updates' = ema_updates + 1
                  /\ frame'.bottleneck_modes = <<"TRAIN">>
          /\ hparams.mode = "TRAIN" => ema_updates' <= ema_updates + 1
          /\ hparams.mode = "PREDICT"
               => /\ ema_updates' = ema_updates
                  /\ \A k \in 1..Len(frame'.bottleneck_modes) :
                       frame'.bottleneck_modes[k] # "TRAIN"]_vars

\* Two training passes of the vector-quantization bottleneck with EMA, each
\* with its update, then a PREDICT pass of the same kind that left the
\* statistics as they were.
C15_Witness ==
  /\ calls = 3
  /\ ema_updates = 2
  /\ frame.status = "returned"
  /\ hparams.mode = "PREDICT"
  /\ hparams.bottleneck_kind = "dvq"
  /\ hparams.ema


(***************************************************************************)
(* C19: the module flag _DO_SUMMARIES is a one-way latch: it starts True,  *)
(* a call of ae_transformer_internal with do_refine set makes it False,    *)
(* and no operation sets it back to True, so that after a pass with        *)
(* do_refine set every later forward pass of the process, with do_refine   *)
(* set or not, emits no summaries (b0 and latent_pred_loss_mean, the       *)
(* summaries of lines 411-412 and 430-432).                                *)
(***************************************************************************)
C19_OneWayLatch ==
  /\ DO_SUMMARIES = TRUE
  /\ [][/\ ~DO_SUMMARIES => ~DO_SUMMARIES'
        /\ (calls' = calls + 1 /\ hparams.do_refine) => ~DO_SUMMARIES'
        /\ (calls' = calls + 1 /\ ~hparams.do_refine)
             => DO_SUMMARIES' = DO_SUMMARIES
        /\ calls' = calls => DO_SUMMARIES' = DO_SUMMARIES
        /\ (calls' = calls + 1 /\ ~DO_SUMMARIES')
             => frame'.summaries = <<>>]_vars

\* A training pass without do_refine of a discrete kind, run after an
\* earlier pass with do_refine: it returned and emitted no summaries,
\* where the same pass run first emits them.
C19_Witness ==
  /\ ~DO_SUMMARIES
  /\ ~hparams.do_refine
  /\ hparams.mode = "TRAIN"
  /\ hparams.bottleneck_kind = "semhash"
  /\ calls >= 2
  /\ frame.status = "returned"
  /\ frame.summaries = <<>>
  /\ summaries_of(hparams, TRUE, TRUE) # <<>>

\* The frames of the pass of the process under hp at the given step, run
\* as the first pass of a process: _DO_SUMMARIES is still True when the
\* pass starts and no pass has updated the statistics of the bottleneck.
first_passes(hp, step) ==
  {ae_transformer_internal(Some(<<1>>), ProcessTargets, 0, hp, None, One,
                           step, rnd, ~hp.do_refine, 0) :
     rnd \in ProcessDraws(hp)}

\* The values that ae_transformer_internal returns (line 540), or the
\* error it raises.
returned_values(fr) ==
  IF fr.status = "returned"
  THEN <<fr.res, fr.losses, fr.cache, fr.data_dim, fr.latent_dim>>
  ELSE <<fr.error>>

(***************************************************************************)
(* C16 as stated: a forward pass changes no state that outlives the call   *)
(* other than the statistics of the bottleneck, does not mutate the        *)
(* hyperparameters, and run again with the same arguments after any        *)
(* sequence of earlier passes behaves as if it were run first.  The pass   *)
(* writes the module flag _DO_SUMMARIES, and a later pass reads the flag   *)
(* and the statistics that the earlier passes left.                        *)
(***************************************************************************)
C16_PureAsClaimed ==
  [][calls' = calls + 1
       => /\ hparams' = hparams
          /\ <<DO_SUMMARIES, global_step, predict_mask, features, model>>'
               = <<DO_SUMMARIES, global_step, predict_mask, features, model>>
          /\ frame' \in first_passes(hparams, global_step)]_vars

(***************************************************************************)
(* C16 amended: a forward pass does not mutate the hyperparameters, and    *)
(* it writes two states that outlive the call: the statistics of the       *)
(* bottleneck (a TRAIN pass of the vector-quantization kind with EMA) and  *)
(* the module flag _DO_SUMMARIES (False from the first pass with do_refine *)
(* on).  It reads both: while the flag is False it emits none of the       *)
(* summaries it emits when run first, and it returns what it returns when  *)
(* run first as long as no earlier pass has updated the statistics its     *)
(* bottleneck reads, that is for every kind that is given no codebook, and *)
(* for the vector-quantization kind before the first update.               *)
(***************************************************************************)
C16_PureUpToSummaries ==
  [][calls' = calls + 1
       => /\ hparams' = hparams
          /\ <<global_step, predict_mask, features, model>>'
               = <<global_step, predict_mask, features, model>>
          /\ DO_SUMMARIES' = (DO_SUMMARIES /\ ~hparams.do_refine)
          /\ ema_updates' # ema_updates
               => /\ hparams.mode = "TRAIN"
                  /\ hparams.bottleneck_kind = "dvq"
                  /\ hparams.ema
          /\ \E fp \in first_passes(hparams, global_step) :
               /\ frame'.summaries
                    = IF DO_SUMMARIES' THEN fp.summaries ELSE <<>>
               /\ (hparams.bottleneck_kind # "dvq" \/ ema_updates = 0)
                    => returned_values(frame') = returned_values(fp)]_vars

\* A third pass, without do_refine and of a kind without a codebook, run
\* after a pass that updated the statistics of the bottleneck and after a
\* pass with do_refine: it returned what the first pass of a process
\* returns and emitted none of the summaries that pass emits.
C16_Witness ==
  /\ calls = 3
  /\ ema_updates > 0
  /\ ~hparams.do_refine
  /\ hparams.bottleneck_kind = "semhash"
  /\ ~DO_SUMMARIES
  /\ frame.status = "returned"
  /\ \E fp \in first_passes(hparams, global_step) :
       /\ returned_values(frame) = returned_values(fp)
       /\ fp.summaries # <<>>
       /\ frame.summaries = <<>>


(***************************************************************************)
(* Time steps of tensor2tensor/envs: create_time_step builds an immutable  *)
(* record of six fields and TimeStep.replace builds another one from it.   *)
(* A field that may be None holds <<>> for None and <<v>> for the value v; *)
(* the dictionary {1: 1, 2: 4} is the sequence of its values.              *)
(***************************************************************************)
TimeStepFields ==
  {"observation", "done", "raw_reward", "processed_reward", "action", "info"}

\* The values of the fields that the tests use.
TimeSteps ==
  [observation : {<<>>, <<1>>},
   done : BOOLEAN,
   raw_reward : {<<>>, <<1>>},
   processed_reward : {<<>>, <<1>>},
   action : {<<>>, <<1>>, <<2>>},
   info : {<<>>, <<<<1, 4>>>>}]

\* The keyword arguments of replace: a field is not named (<<>>) or named
\* with a value (<<value>>).
ReplaceKwargs ==
  [observation : {<<>>} \cup {<<v>> : v \in {<<>>, <<1>>}},
   done : {<<>>} \cup {<<v>> : v \in BOOLEAN},
   raw_reward : {<<>>} \cup {<<v>> : v \in {<<>>, <<1>>}},
   processed_reward : {<<>>} \cup {<<v>> : v \in {<<>>, <<1>>}},
   action : {<<>>} \cup {<<v>> : v \in {<<>>, <<1>>, <<2>>}},
   info : {<<>>} \cup {<<v>> : v \in {<<>>, <<<<1, 4>>>>}}]

\* create_time_step(observation, done, raw_reward, processed_reward,
\* action, info).
create_time_step(observation, done, raw_reward, processed_reward, action, info) ==
  [observation |-> observation, done |-> done, raw_reward |-> raw_reward,
   processed_reward |-> processed_reward, action |-> action, info |-> info]

\* A replace that builds the new time step from the named fields alone.
replace_from_defaults(step, kwargs) ==
  [f \in TimeStepFields |->
     IF kwargs[f] # <<>> THEN kwargs[f][1]
     ELSE IF f = "done" THEN FALSE ELSE <<>>]

\* TimeStep.replace(**kwargs): a new time step with the named fields
\* replaced.
replace(step, kwargs) ==
  [f \in TimeStepFields |->
     IF kwargs[f] = <<>> THEN step[f] ELSE kwargs[f][1]]

TimeStepInit ==
  /\ hparams = DefaultHparams
  /\ ForwardIdle
  /\ SamplerIdle
  /\ softmax = NoSoftmax

\* ts = create_time_step(...).
CreateTimeStep ==
  /\ ts.status = "none"
  /\ \E step \in TimeSteps :
       ts' = [status |-> "created",
              step |-> create_time_step(step.observation, step.done,
                                        step.raw_reward,
                                        step.processed_reward, step.action,
                                        step.info)]
  /\ UNCHANGED <<hparams, fvars, dvars, svars, softmax, model, tsr>>

\* A replace that writes the named fields into the time step it is
\* called on.
ReplaceInPlace ==
  /\ ts.status = "created"
  /\ tsr.status = "none"
  /\ \E kwargs \in ReplaceKwargs :
       /\ tsr' = [status |-> "replaced", kwargs |-> kwargs,
                  original |-> ts.step, step |-> replace(ts.step, kwargs)]
       /\ ts' = [ts EXCEPT !.step = replace(ts.step, kwargs)]
  /\ UNCHANGED <<hparams, fvars, dvars, svars, softmax, model>>

\* tsr = ts.replace(**kwargs); original is ts as it was read before the
\* call.
Replace ==
  /\ ts.status = "created"
  /\ tsr.status = "none"
  /\ \E kwargs \in ReplaceKwargs :
       tsr' = [status |-> "replaced", kwargs |-> kwargs, original |-> ts.step,
               step |-> replace(ts.step, kwargs)]
  /\ UNCHANGED <<hparams, fvars, dvars, svars, softmax, model, ts>>

TimeStepNext ==
  \/ CreateTimeStep
  \/ Replace

TimeStepSpec == TimeStepInit /\ [][TimeStepNext]_vars

(***************************************************************************)
(* C17: TimeStep.replace returns a new time step in which exactly the      *)
(* named fields have the given values and every other field equals the     *)
(* original's, and it leaves the original time step unchanged.             *)
(***************************************************************************)
C17_ReplaceNamedFields ==
  tsr.status = "replaced"
    => /\ \A f \in TimeStepFields :
            tsr.step[f] = IF tsr.kwargs[f] = <<>> THEN tsr.original[f]
                          ELSE tsr.kwargs[f][1]
       /\ ts.status = "created"
       /\ ts.step = tsr.original
       /\ ts.step.done = tsr.original.done
       /\ ts.step.observation = tsr.original.observation
       /\ ts.step.action = tsr.original.action

\* The case of test_replace: ts = create_time_step(observation=1,
\* action=1) and tsr = ts.replace(action=2, done=True, info={1: 1, 2: 4}).
C17_Witness ==
  /\ ts.status = "created"
  /\ ts.step = create_time_step(<<1>>, FALSE, <<>>, <<>>, <<1>>, <<>>)
  /\ tsr.status = "replaced"
  /\ tsr.kwargs = [observation |-> <<>>, done |-> <<TRUE>>,
                   raw_reward |-> <<>>, processed_reward |-> <<>>,
                   action |-> <<<<2>>>>, info |-> <<<<<<1, 4>>>>>>]
  /\ tsr.step = create_time_step(<<1>>, TRUE, <<>>, <<>>, <<2>>,
                                 <<<<1, 4>>>>)
  /\ ~ts.step.done


(***************************************************************************)
(* multinomial_sample on rows of logits, over the temperatures below, at   *)
(* and above zero.                                                         *)
(***************************************************************************)
MaxBits == 2

MultinomialConfigs ==
  {[DefaultHparams EXCEPT !.z_size = z, !.sampling_temp = t] :
     z \in 1..MaxBits, t \in SamplingTemps}

\* The logits of one position: those of the dense layer for a prediction
\* and a weight, or the same logit for every code.
PositionLogits(vocab) ==
  {dense_logits(embed(c), vocab, w) : c \in 0..1, w \in 0..MaxWeights}
    \cup {[v \in 1..vocab |-> 0]}

MultinomialInit ==
  /\ hparams \in MultinomialConfigs
  /\ softmax = NoSoftmax
  /\ ForwardIdle
  /\ SamplerIdle

\* multinomial_sample(x, vocab_size, hparams.sampling_temp) as lines
\* 243-244 call it; draw is what tf.multinomial returns if it is called.
MultinomialSample ==
  /\ softmax.status = "none"
  /\ \E len \in 1..MaxShortLen :
       \E x \in [1..len -> PositionLogits(vocab_size(hparams))],
          draw \in [1..len -> 0..(vocab_size(hparams) - 1)] :
         softmax' = [status |-> "sampled", x |-> x, draw |-> draw,
                     samples |-> multinomial_sample(x, vocab_size(hparams),
                                                    hparams.sampling_temp,
                                                    draw)]
  /\ UNCHANGED <<hparams, fvars, dvars, ovars, svars>>

MultinomialNext == MultinomialSample

MultinomialSpec == MultinomialInit /\ [][MultinomialNext]_vars

(***************************************************************************)
(* C18: multinomial_sample with temperature <= 0 returns the argmax of the *)
(* logits over the vocabulary axis (deterministic: equal logits give equal *)
(* codes), draws a multinomial sample only when temperature > 0, and in    *)
(* both cases returns an integer code in [0, vocab_size) for every         *)
(* position of the input (the shape of the input without its last axis).   *)
(***************************************************************************)
C18_TemperatureBranch ==
  softmax.status = "sampled"
    => LET x == softmax.x
           samples == softmax.samples
           vocab == Pow(2, hparams.z_size)
       IN  /\ Len(samples) = Len(x)
           /\ \A p \in 1..Len(x) : samples[p] \in 0..(vocab - 1)
           /\ RLess(Zero, hparams.sampling_temp) => samples = softmax.draw
           /\ ~RLess(Zero, hparams.sampling_temp)
                => /\ \A p \in 1..Len(x) :
                        /\ \A v \in 1..vocab : x[p][v] <= x[p][samples[p] + 1]
                        /\ \A v \in 1..samples[p] :
                             x[p][v] < x[p][samples[p] + 1]
                   /\ \A p, q \in 1..Len(x) :
                        x[p] = x[q] => samples[p] = samples[q]

\* Temperature zero, two positions with the same logits, equal for every
\* code: the first code at both, whatever tf.multinomial would have drawn.
C18_Witness ==
  /\ softmax.status = "sampled"
  /\ hparams.sampling_temp = Zero
  /\ Len(softmax.x) = 2
  /\ softmax.x[1] = softmax.x[2]
  /\ \A v \in 1..Len(softmax.x[1]) : softmax.x[1][v] = 0
  /\ softmax.samples = <<0, 0>>
  /\ softmax.draw = <<1, 0>>

================================================================
